---- MODULE Spec2Model ----
(***************************************************************************)
(* State-machine model of agendamento_webhook.py: the three booking        *)
(* handlers (processar_agendamento_get, processar_agendamento_json,        *)
(* agendamentos_add_legacy), the helpers they call, and the part of the    *)
(* Bitrix CRM (one lead, its linked contact, the lead's timeline, the      *)
(* deals) that the handlers read and write.                                *)
(*                                                                         *)
(* Every action is one blocking round trip to a gateway (or the local      *)
(* computation up to the next round trip).  The roster query, the customer *)
(* creation and the booking call are split in two steps, the request and   *)
(* the handling of the response, the response being held in frame[p].resp  *)
(* in between.  frame[p].log is the set of events logged at warning or     *)
(* error level.  Python's None is the string "None"; "Nao" stands for      *)
(* "Não".                                                                  *)
(***************************************************************************)
EXTENDS Integers, Sequences, FiniteSets, TLC

VARIABLES
    procs,          \* the invocations in flight (one HTTP request each)
    event,          \* event[p]: the request parameters of invocation p
    frame,          \* frame[p]: the handler's local variables, pc, calls issued, result
    leadFields,     \* CRM: the lead's fields (field id -> value)
    contactFields,  \* CRM: the fields of the contact "c1"
    comments,       \* CRM: the lead's timeline comments (kind of each)
    deals           \* CRM: the deals created, in order

vars == <<procs, event, frame, leadFields, contactFields, comments, deals>>

None == "None"

\* Python truthiness of a string-or-None value.
Truthy(v) == v /= None /\ v /= ""

\* a or b, on string-or-None values.
Or(a, b) == IF Truthy(a) THEN a ELSE b

Merge(f, g) == [k \in DOMAIN f \cup DOMAIN g |-> IF k \in DOMAIN g THEN g[k] ELSE f[k]]

Range(s) == {s[i] : i \in DOMAIN s}

-----------------------------------------------------------------------------
(* Field ids and code tables                                               *)

LEAD_FIELD_DATA_AGENDAMENTO == "UF_CRM_1729176556443"
LEAD_FIELD_PROFISSIONAL == "UF_CRM_1729176701"
LEAD_FIELD_ESTABELECIMENTO == "UF_CRM_6531923E155B0"
LEAD_FIELD_CODIGO_AGENDAMENTO == "UF_CRM_1729176843003"
LEAD_FIELD_PROCEDIMENTO == "UF_CRM_1729180875"
LEAD_FIELD_CODIGO_CLIENTE_BELLE == "UF_CRM_1730401249284"
LEAD_FIELD_TIPO_ATENDIMENTO == "UF_CRM_1695303850778"
LEAD_FIELD_AGENDADOR == "UF_CRM_1729176345"
LEAD_FIELD_EQUIPAMENTO == "UF_CRM_1729176824131"
FIELD_CODIGO_CLIENTE_BELLE_CONTATO == "UF_CRM_1693232565211"

FIELD_DATA_AGENDAMENTO == LEAD_FIELD_DATA_AGENDAMENTO
FIELD_CODIGO_AGENDAMENTO == LEAD_FIELD_CODIGO_AGENDAMENTO
FIELD_PROFISSIONAL == LEAD_FIELD_PROFISSIONAL
FIELD_ESTABELECIMENTO == LEAD_FIELD_ESTABELECIMENTO
FIELD_PROCEDIMENTO == LEAD_FIELD_PROCEDIMENTO
FIELD_TIPO_CONSULTA == LEAD_FIELD_TIPO_ATENDIMENTO
FIELD_EQUIPAMENTO == LEAD_FIELD_EQUIPAMENTO
FIELD_CODIGO_CLIENTE_BELLE == LEAD_FIELD_CODIGO_CLIENTE_BELLE

BELLE_CODES_VALIDOS == {1, 2, 5, 10, 11, 12, 14}

\* BITRIX_TO_BELLE_ESTABELECIMENTO with the codes of two elements exchanged.
BITRIX_TO_BELLE_ESTABELECIMENTO_TROCADO ==
    (238 :> 1) @@ (240 :> 2) @@ (242 :> 10) @@ (244 :> 5) @@ (246 :> 11)
    @@ (248 :> 12) @@ (8510 :> 14)

BITRIX_TO_BELLE_ESTABELECIMENTO ==
    (238 :> 1) @@ (240 :> 2) @@ (242 :> 5) @@ (244 :> 10) @@ (246 :> 11)
    @@ (248 :> 12) @@ (8510 :> 14)

ESTABELECIMENTO_TO_PIPELINE ==
    ("1" :> <<42, "C42:UC_12PH7E">>) @@ ("2" :> <<42, "C42:UC_12PH7E">>)
    @@ ("10" :> <<42, "C42:UC_12PH7E">>) @@ ("11" :> <<42, "C42:UC_12PH7E">>)
    @@ ("5" :> <<48, "C48:UC_7TGHGJ">>) @@ ("12" :> <<50, "C50:UC_KEJS7X">>)
    @@ ("14" :> <<54, "C54:NEW">>)

DEAL_CATEGORY_ID_DEFAULT == 42
DEAL_STAGE_DEFAULT == "C42:UC_12PH7E"

-----------------------------------------------------------------------------
(* The tables of the promotion to a deal. The ids of CRM list elements and   *)
(* options are written as their decimal text.                               *)

\* The other field ids of the lead and the field ids of the deal.
LEAD_FIELD_PROCEDIMENTO_NOME == "UF_CRM_1691074328"
LEAD_FIELD_ORIGEM == "UF_CRM_1692640693814"
LEAD_FIELD_CAMPANHA == "UF_CRM_1729176132205"
LEAD_FIELD_TIPO_PACIENTE == "UF_CRM_1729176219395"
LEAD_FIELD_SEGMENTO == "UF_CRM_1729176820"
LEAD_FIELD_TIPO_CONSULTA == "UF_CRM_1729176810161"
DEAL_FIELD_DATA_AGENDAMENTO == "UF_CRM_67279644B07C8"
DEAL_FIELD_PROFISSIONAL == "UF_CRM_67279644D2A21"
DEAL_FIELD_ESTABELECIMENTO == "UF_CRM_6531923E155B0"
DEAL_FIELD_CODIGO_AGENDAMENTO == "UF_CRM_6727964521E7A"
DEAL_FIELD_PROCEDIMENTO == "UF_CRM_672796455B831"
DEAL_FIELD_PROCEDIMENTO_NOME == "UF_CRM_1691074328"
DEAL_FIELD_CODIGO_CLIENTE_BELLE == "UF_CRM_672796456F150"
DEAL_FIELD_ORIGEM == "UF_CRM_64E79DD16B294"
DEAL_FIELD_CAMPANHA == "UF_CRM_1720714625351"
DEAL_FIELD_TIPO_ATENDIMENTO == "UF_CRM_650C5648BE36D"
DEAL_FIELD_SEGMENTO == "UF_CRM_67279644E834B"
DEAL_FIELD_AGENDADOR == "UF_CRM_1697667153"
DEAL_FIELD_TIPO_PACIENTE == "UF_CRM_65118CE0CE1BD"
DEAL_FIELD_EQUIPAMENTO == "UF_CRM_1729176824131"

\* The lead fields the handlers read or write.
StandardLeadFields ==
    { "ASSIGNED_BY_ID", "SOURCE_ID", "SOURCE_DESCRIPTION",
      "UTM_SOURCE", "UTM_MEDIUM", "UTM_CAMPAIGN", "UTM_CONTENT", "UTM_TERM" }

LeadKeys ==
    { "CONTACT_ID", "STATUS_ID", "TITLE", "NAME",
      FIELD_DATA_AGENDAMENTO, FIELD_CODIGO_AGENDAMENTO, FIELD_PROFISSIONAL,
      FIELD_ESTABELECIMENTO, FIELD_PROCEDIMENTO, FIELD_TIPO_CONSULTA,
      FIELD_EQUIPAMENTO, FIELD_CODIGO_CLIENTE_BELLE, LEAD_FIELD_AGENDADOR,
      LEAD_FIELD_PROCEDIMENTO_NOME, LEAD_FIELD_ORIGEM, LEAD_FIELD_CAMPANHA,
      LEAD_FIELD_TIPO_PACIENTE, LEAD_FIELD_SEGMENTO }
    \cup StandardLeadFields

\* LEAD_TO_DEAL_FIELD_MAP: lead field id -> deal field id, in the order of the
\* source.
LEAD_TO_DEAL_FIELD_MAP ==
    (LEAD_FIELD_DATA_AGENDAMENTO :> DEAL_FIELD_DATA_AGENDAMENTO)
    @@ (LEAD_FIELD_PROFISSIONAL :> DEAL_FIELD_PROFISSIONAL)
    @@ (LEAD_FIELD_ESTABELECIMENTO :> DEAL_FIELD_ESTABELECIMENTO)
    @@ (LEAD_FIELD_CODIGO_AGENDAMENTO :> DEAL_FIELD_CODIGO_AGENDAMENTO)
    @@ (LEAD_FIELD_PROCEDIMENTO :> DEAL_FIELD_PROCEDIMENTO)
    @@ (LEAD_FIELD_PROCEDIMENTO_NOME :> DEAL_FIELD_PROCEDIMENTO_NOME)
    @@ (LEAD_FIELD_CODIGO_CLIENTE_BELLE :> DEAL_FIELD_CODIGO_CLIENTE_BELLE)
    @@ (LEAD_FIELD_ORIGEM :> DEAL_FIELD_ORIGEM)
    @@ (LEAD_FIELD_CAMPANHA :> DEAL_FIELD_CAMPANHA)
    @@ (LEAD_FIELD_TIPO_ATENDIMENTO :> DEAL_FIELD_TIPO_ATENDIMENTO)
    @@ (LEAD_FIELD_AGENDADOR :> DEAL_FIELD_AGENDADOR)
    @@ (LEAD_FIELD_TIPO_PACIENTE :> DEAL_FIELD_TIPO_PACIENTE)
    @@ (LEAD_FIELD_SEGMENTO :> DEAL_FIELD_SEGMENTO)
    @@ (LEAD_FIELD_EQUIPAMENTO :> DEAL_FIELD_EQUIPAMENTO)

BELLE_TO_BITRIX_PROFISSIONAL ==
    ("103585" :> "8232") @@ ("39340" :> "1014") @@ ("39898" :> "1000") @@ ("74361" :> "6636")
    @@ ("88681" :> "7816") @@ ("100822" :> "7960") @@ ("108195" :> "9038") @@ ("EVELIN" :> "1002")
    @@ ("KELLY" :> "268") @@ ("NATASHA" :> "266") @@ ("101754" :> "8234")

BELLE_TO_BITRIX_ESTABELECIMENTO ==
    ("1" :> "238") @@ ("2" :> "240") @@ ("5" :> "242") @@ ("10" :> "244")
    @@ ("11" :> "246") @@ ("12" :> "248") @@ ("14" :> "8510")

BELLE_TO_BITRIX_SEGMENTO == BELLE_TO_BITRIX_ESTABELECIMENTO

\* BITRIX_PROCEDIMENTO_POR_NOME: the entries whose name is plain ASCII text.
BITRIX_PROCEDIMENTO_POR_NOME ==
    ("AVALIACAO DE PROCEDIMENTO" :> "7054") @@ ("CONSULTA" :> "7056")
    @@ ("MASSAGEM RELAXANTE" :> "7166") @@ ("MASSAGEM COM PEDRAS QUENTES" :> "7174")
    @@ ("DRENAGEM CORPO" :> "7178") @@ ("DRENAGEM ROSTO" :> "7182")
    @@ ("LIMPEZA DE PELE" :> "7146") @@ ("HECCUS" :> "7198")
    @@ ("ULTRAFORMER" :> "7328") @@ ("BOTOX" :> "7740")
    @@ ("ACIDO HIALURONICO" :> "7744") @@ ("SCULPTRA" :> "7780")
    @@ ("RADIESSE" :> "7800") @@ ("BLEFAROPLASTIA" :> "7784")
    @@ ("RINOMODELACAO" :> "7772") @@ ("FIO PDO" :> "7762")
    @@ ("DEPILACAO MOTUS" :> "7562") @@ ("MASSAGEM AROMATICA" :> "7874")
    @@ ("MASSAGEM DETOX" :> "7360") @@ ("MASSAGEM MODELADORA" :> "7262")
    @@ ("MASSAGEM COM PINDAS" :> "7298") @@ ("MASSAGEM ESPORTIVA" :> "7326")
    @@ ("MASSAGEM BIOENERGETICA" :> "7284") @@ ("MASSAGEM REVIGORANTE" :> "7370")
    @@ ("MASSAGEM BAMBUTERAPIA" :> "7952") @@ ("MASSAGEM CRANIO FACIL" :> "7618")
    @@ ("MASSAGEM ESFOLIANTE DETOX COM MANTA TERMICA" :> "7590") @@ ("QUICK MASSAGEM" :> "7264")
    @@ ("PEELING" :> "7238") @@ ("CARBOXITERAPIA" :> "7364")
    @@ ("ZFIELD" :> "7368") @@ ("POWER SHAPE" :> "7540")
    @@ ("LED" :> "7202") @@ ("EXILIS" :> "7116")
    @@ ("LEGACY" :> "7492") @@ ("EMFACE" :> "7630")
    @@ ("EMSCULPT NEO" :> "7752") @@ ("ULTRAFORMER III" :> "7748")
    @@ ("VOLNEWMER" :> "7866") @@ ("PICOSURE" :> "7758")
    @@ ("MORPHEUS - RADIOFREQUENCIA MICROAGULAHADA" :> "7774") @@ ("PROFHILO" :> "7778")
    @@ ("HARMONYCAS" :> "7782") @@ ("ELLEVA" :> "7796")
    @@ ("DAY SPA" :> "7420") @@ ("CONSULTA MEDICA CRM 6492" :> "7272")
    @@ ("CONSULTA MEDICA CRM 2425" :> "7332") @@ ("CONSULTA MEDICA CRM 11271" :> "7530")
    @@ ("RETORNO" :> "8724") @@ ("FACE SPA KOREANO" :> "8198")
    @@ ("SKIN BOOSTER" :> "8350")

LEAD_TO_DEAL_ENUM_ORIGEM ==
    ("2138" :> "2136") @@ ("136" :> "220") @@ ("200" :> "222") @@ ("610" :> "614")
    @@ ("208" :> "3442") @@ ("3674" :> "3672") @@ ("3566" :> "3556") @@ ("3568" :> "3564")
    @@ ("3570" :> "3558") @@ ("3572" :> "3562") @@ ("3574" :> "3560") @@ ("1788" :> "1784")
    @@ ("1790" :> "1786") @@ ("3612" :> "3610") @@ ("7306" :> "7312") @@ ("1016" :> "1014")
    @@ ("7370" :> "7376") @@ ("7380" :> "7392") @@ ("7382" :> "7394") @@ ("634" :> "638")
    @@ ("7400" :> "7406") @@ ("7746" :> "7752") @@ ("8192" :> "8198") @@ ("8484" :> "8490")

LEAD_TO_DEAL_ENUM_CAMPANHA ==
    ("7358" :> "7360") @@ ("3720" :> "3306") @@ ("3722" :> "7268") @@ ("3724" :> "7270")
    @@ ("3726" :> "7272") @@ ("3728" :> "3620") @@ ("3730" :> "3682") @@ ("7264" :> "7274")
    @@ ("7266" :> "7276") @@ ("7328" :> "7330") @@ ("7300" :> "7302") @@ ("7316" :> "7318")
    @@ ("7322" :> "7324") @@ ("7334" :> "7336") @@ ("7340" :> "7342") @@ ("7346" :> "7348")
    @@ ("7352" :> "7354") @@ ("7364" :> "7366") @@ ("7410" :> "7412") @@ ("7416" :> "7426")
    @@ ("7418" :> "7428") @@ ("7420" :> "7430") @@ ("7466" :> "7468") @@ ("7422" :> "7432")
    @@ ("7424" :> "7434") @@ ("7472" :> "7474") @@ ("7478" :> "7480") @@ ("7688" :> "7690")
    @@ ("7700" :> "7704") @@ ("7702" :> "7706") @@ ("7712" :> "7714") @@ ("7718" :> "7720")
    @@ ("7734" :> "7738") @@ ("7736" :> "7740") @@ ("7756" :> "7760") @@ ("7758" :> "7762")
    @@ ("7768" :> "7774") @@ ("7770" :> "7776") @@ ("7772" :> "7778") @@ ("7786" :> "7794")
    @@ ("7788" :> "7796") @@ ("7790" :> "7798") @@ ("7792" :> "7800") @@ ("8026" :> "8028")
    @@ ("8202" :> "8210") @@ ("8204" :> "8212") @@ ("8206" :> "8214") @@ ("8208" :> "8216")
    @@ ("8286" :> "8288") @@ ("8292" :> "8296") @@ ("8294" :> "8298") @@ ("8332" :> "8334")
    @@ ("8348" :> "8350") @@ ("8472" :> "8474") @@ ("8494" :> "8496") @@ ("8500" :> "8502")
    @@ ("8524" :> "8526") @@ ("9626" :> "9628") @@ ("10124" :> "10126")

LEAD_TO_DEAL_ENUM_TIPO_ATENDIMENTO ==
    ("718" :> "742") @@ ("3712" :> "3710") @@ ("1642" :> "1634") @@ ("1638" :> "1632")
    @@ ("1640" :> "1636") @@ ("1846" :> "1844") @@ ("720" :> "744") @@ ("722" :> "746")
    @@ ("726" :> "750") @@ ("3388" :> "3386") @@ ("7244" :> "7250") @@ ("728" :> "752")
    @@ ("8338" :> "8344")

\* TIPO_ATENDIMENTO_TEXTO_PARA_ID: the entries whose text is plain ASCII.
TIPO_ATENDIMENTO_TEXTO_PARA_ID ==
    ("VENDA DE PLANO" :> "742") @@ ("RENOVACAO DE PLANO" :> "3710")
    @@ ("CONSULTA" :> "1634") @@ ("AVALIACAO GRATUITA" :> "1632")
    @@ ("AVALIACAO PAGA" :> "1636") @@ ("UTILIZACAO DE VOUCHER" :> "1844")
    @@ ("BAIXA DE SESSAO" :> "744") @@ ("RETORNO" :> "746")
    @@ ("CORTESIA" :> "750") @@ ("PERMUTA" :> "3386")
    @@ ("VENDA DE VOUCHER" :> "7250") @@ ("LEAD DESQUALIFICADO" :> "752")
    @@ ("LISTA DE ESPERA - NUTROLOGIA" :> "8344") @@ ("742" :> "742")
    @@ ("3710" :> "3710") @@ ("1634" :> "1634")
    @@ ("1632" :> "1632") @@ ("1636" :> "1636")
    @@ ("1844" :> "1844") @@ ("744" :> "744")
    @@ ("746" :> "746") @@ ("750" :> "750")
    @@ ("3386" :> "3386") @@ ("7250" :> "7250")
    @@ ("752" :> "752") @@ ("8344" :> "8344")

LEAD_TO_DEAL_ENUM_TIPO_PACIENTE ==
    ("3732" :> "7032") @@ ("3734" :> "7034") @@ ("3736" :> "2920")

ENUM_FIELD_MAPPINGS ==
    (LEAD_FIELD_ORIGEM :> LEAD_TO_DEAL_ENUM_ORIGEM)
    @@ (LEAD_FIELD_CAMPANHA :> LEAD_TO_DEAL_ENUM_CAMPANHA)
    @@ (LEAD_FIELD_TIPO_ATENDIMENTO :> LEAD_TO_DEAL_ENUM_TIPO_ATENDIMENTO)
    @@ (LEAD_FIELD_TIPO_PACIENTE :> LEAD_TO_DEAL_ENUM_TIPO_PACIENTE)

ENUM_FIELDS == DOMAIN ENUM_FIELD_MAPPINGS

-----------------------------------------------------------------------------
(* Conversions on the strings of the model                                 *)

\* int(s): the strings Python parses as an integer, and their values.
IntStrings == {"1", "238", "242", "999", "14", "55", "77", "88"}

IntOf(s) ==
    CASE s = "1" -> 1 [] s = "238" -> 238 [] s = "242" -> 242 [] s = "999" -> 999 [] s = "14" -> 14
      [] s = "55" -> 55 [] s = "77" -> 77 [] s = "88" -> 88

\* str(s).strip(): the text without the blanks around it; str(None) is the
\* text "None".
Strip(s) ==
    CASE s = " 5 " -> "5"
      [] s = " 39340" -> "39340"
      [] s = " kelly " -> "kelly"
      [] OTHER -> s

\* str(s).strip().upper()
StripUpper(s) ==
    CASE s = "kelly" -> "KELLY"
      [] s = "Consulta" -> "CONSULTA"
      [] s = " botox " -> "BOTOX"
      [] s = "servico[4][nome]=Consulta" -> "SERVICO[4][NOME]=CONSULTA"
      [] s = " kelly " -> "KELLY"
      [] s = " 39340" -> "39340"
      [] OTHER -> s

-----------------------------------------------------------------------------
(* Pure helpers of the source                                              *)

\* processar_agendamento_get, "Valida campos obrigatórios": the labels of the
\* required fields that are empty, in the order the code appends them.
LabelData == "Data do Agendamento (dataagendamento)"
LabelHorario == "Horario (horario)"
LabelProfissional == "Profissional (profissional)"
LabelEstabelecimento == "Estabelecimento (estabelecimento)"
LabelProcedimento == "Procedimento/Servico (procedimento)"

\* The required-field check as it was before procedimento became required:
\* an empty procedimento is not reported.
CamposFaltandoSemProcedimento(ev) ==
    (IF ~Truthy(ev.dataagendamento) THEN <<LabelData>> ELSE <<>>)
    \o (IF ~Truthy(ev.horario) THEN <<LabelHorario>> ELSE <<>>)
    \o (IF ~Truthy(ev.profissional) THEN <<LabelProfissional>> ELSE <<>>)
    \o (IF ~Truthy(ev.estabelecimento) THEN <<LabelEstabelecimento>> ELSE <<>>)

CamposFaltando(ev) ==
    (IF ~Truthy(ev.dataagendamento) THEN <<LabelData>> ELSE <<>>)
    \o (IF ~Truthy(ev.horario) THEN <<LabelHorario>> ELSE <<>>)
    \o (IF ~Truthy(ev.profissional) THEN <<LabelProfissional>> ELSE <<>>)
    \o (IF ~Truthy(ev.estabelecimento) THEN <<LabelEstabelecimento>> ELSE <<>>)
    \o (IF ~Truthy(ev.procedimento) THEN <<LabelProcedimento>> ELSE <<>>)

\* converter_estabelecimento_para_belle without its first test ("Se já é um
\* código Belle válido, retorna direto"): only the static table.
EstabelecimentoSoTabela(estabelecimento_id) ==
    IF estabelecimento_id \in DOMAIN BITRIX_TO_BELLE_ESTABELECIMENTO
    THEN BITRIX_TO_BELLE_ESTABELECIMENTO[estabelecimento_id]
    ELSE 0

\* converter_estabelecimento_para_belle, the part before the CRM lookup:
\* the Belle code, or 0 when only the lookup can tell.
EstabelecimentoEstatico(estabelecimento_id) ==
    IF estabelecimento_id \in BELLE_CODES_VALIDOS THEN estabelecimento_id
    ELSE IF estabelecimento_id \in DOMAIN BITRIX_TO_BELLE_ESTABELECIMENTO
         THEN BITRIX_TO_BELLE_ESTABELECIMENTO[estabelecimento_id]
         ELSE 0

\* validar_estabelecimento: the warning, or None.
validar_estabelecimento(estabelecimento_codigo) ==
    IF estabelecimento_codigo \notin {1, 2, 5, 10, 11, 12, 14}
    THEN "pode estar incorreto" ELSE None

\* obter_pipeline_por_estabelecimento with no configured default: a code
\* without an entry gets category 0, the CRM's general pipeline, and no stage.
obter_pipeline_sem_padrao(codigo_estabelecimento) ==
    LET codigo_str == Strip(codigo_estabelecimento)
    IN  IF codigo_str \in DOMAIN ESTABELECIMENTO_TO_PIPELINE
        THEN ESTABELECIMENTO_TO_PIPELINE[codigo_str]
        ELSE <<0, "">>

\* obter_pipeline_por_estabelecimento: the pair (CATEGORY_ID, STAGE_ID).
obter_pipeline_por_estabelecimento(codigo_estabelecimento) ==
    LET codigo_str == Strip(codigo_estabelecimento)
    IN  IF codigo_str \in DOMAIN ESTABELECIMENTO_TO_PIPELINE
        THEN ESTABELECIMENTO_TO_PIPELINE[codigo_str]
        ELSE <<DEAL_CATEGORY_ID_DEFAULT, DEAL_STAGE_DEFAULT>>

\* What obter_pipeline_por_estabelecimento logs as a warning.
obter_pipeline_log(codigo_estabelecimento) ==
    IF Strip(codigo_estabelecimento) \in DOMAIN ESTABELECIMENTO_TO_PIPELINE
    THEN {} ELSE {"estabelecimento_sem_pipeline_mapeado_usando_padrao"}

\* converter_belle_para_bitrix_profissional: the CRM element id, or None.
converter_belle_para_bitrix_profissional(codigo_belle) ==
    LET codigo_str == Strip(codigo_belle)
    IN  IF codigo_str \in DOMAIN BELLE_TO_BITRIX_PROFISSIONAL
        THEN BELLE_TO_BITRIX_PROFISSIONAL[codigo_str] ELSE None

\* converter_belle_para_bitrix_estabelecimento: the CRM element id, or None.
converter_belle_para_bitrix_estabelecimento(codigo_belle) ==
    LET codigo_str == Strip(codigo_belle)
    IN  IF codigo_str \in DOMAIN BELLE_TO_BITRIX_ESTABELECIMENTO
        THEN BELLE_TO_BITRIX_ESTABELECIMENTO[codigo_str] ELSE None

\* converter_belle_para_bitrix_segmento: the CRM element id, or None.
converter_belle_para_bitrix_segmento(codigo_belle) ==
    LET codigo_str == Strip(codigo_belle)
    IN  IF codigo_str \in DOMAIN BELLE_TO_BITRIX_SEGMENTO
        THEN BELLE_TO_BITRIX_SEGMENTO[codigo_str] ELSE None

\* extrair_nome_procedimento: the text after the last "=" of
\* "servico[ID][nome]=NOME", or the text itself, stripped and in upper case.
extrair_nome_procedimento(procedimento_str) ==
    IF ~Truthy(procedimento_str) THEN None
    ELSE IF procedimento_str = "servico[4][nome]=Consulta" THEN "CONSULTA"
    ELSE StripUpper(procedimento_str)

\* converter_procedimento_para_bitrix: the CRM element id, or None.
converter_procedimento_para_bitrix(procedimento_str) ==
    LET nome == extrair_nome_procedimento(procedimento_str)
    IN  IF ~Truthy(nome) THEN None
        ELSE IF nome \in DOMAIN BITRIX_PROCEDIMENTO_POR_NOME
        THEN BITRIX_PROCEDIMENTO_POR_NOME[nome] ELSE None

\* The warning each of the translations logs when it returns None
\* (converter_belle_para_bitrix_segmento logs none).
converter_log(classe, codigo) ==
    CASE classe = "profissional" ->
           IF converter_belle_para_bitrix_profissional(codigo) = None
           THEN {"profissional_sem_mapeamento_belle_bitrix"} ELSE {}
      [] classe = "estabelecimento" ->
           IF converter_belle_para_bitrix_estabelecimento(codigo) = None
           THEN {"estabelecimento_sem_mapeamento_belle_bitrix"} ELSE {}
      [] classe = "procedimento" ->
           IF ~Truthy(extrair_nome_procedimento(codigo)) THEN {"procedimento_nome_vazio"}
           ELSE IF converter_procedimento_para_bitrix(codigo) = None
           THEN {"procedimento_sem_mapeamento_bitrix"} ELSE {}
      [] OTHER -> {}

\* converter_enum_lead_para_deal without its tables: every value is returned
\* as it came.
converter_enum_sem_conversao(field_id, lead_value) == lead_value

\* converter_enum_lead_para_deal: the deal's option id for the lead's option
\* id lead_value of field field_id.
converter_enum_lead_para_deal(field_id, lead_value) ==
    IF ~Truthy(lead_value) THEN lead_value
    ELSE IF field_id \notin DOMAIN ENUM_FIELD_MAPPINGS THEN lead_value
    ELSE LET mapping == ENUM_FIELD_MAPPINGS[field_id]
         IN  IF lead_value \in DOMAIN mapping THEN mapping[lead_value]
             ELSE lead_value

\* What converter_enum_lead_para_deal logs as a warning.
converter_enum_log(field_id, lead_value) ==
    IF /\ Truthy(lead_value)
       /\ field_id \in DOMAIN ENUM_FIELD_MAPPINGS
       /\ lead_value \notin DOMAIN ENUM_FIELD_MAPPINGS[field_id]
    THEN {"enum_sem_mapeamento"} ELSE {}

\* validar_profissional_no_estabelecimento, given the gateway's answer r to
\* usuario/buscar: [valido, nome, erro], and what it logs as warning or error.
PrimeiroUsuario(cod_profissional, usuarios) ==
    LET m == {i \in DOMAIN usuarios :
                StripUpper(usuarios[i].cod_usuario) = StripUpper(cod_profissional)}
    IN  IF m = {} THEN 0 ELSE CHOOSE i \in m : \A j \in m : i <= j

\* validar_profissional_no_estabelecimento without the possui_agenda check:
\* a professional found in the roster is valid.
validar_profissional_sem_agenda(cod_profissional, r) ==
    IF r.raised
    THEN [valido |-> TRUE, nome |-> None, erro |-> None,
          log |-> {"belle_api_error", "erro_validar_profissional_estabelecimento"}]
    ELSE IF r.usuarios = <<>>
    THEN [valido |-> TRUE, nome |-> None, erro |-> None,
          log |-> {"nenhum_usuario_encontrado_no_estabelecimento"}]
    ELSE LET i == PrimeiroUsuario(cod_profissional, r.usuarios)
         IN  IF i = 0
             THEN [valido |-> FALSE, nome |-> None, erro |-> "nao pertence",
                   log |-> {"profissional_nao_pertence_ao_estabelecimento"}]
             ELSE [valido |-> TRUE, nome |-> r.usuarios[i].nom_usuario,
                   erro |-> None, log |-> {}]

\* validar_profissional_no_estabelecimento failing closed: an exception of
\* the roster query makes the pairing invalid.
validar_profissional_fail_closed(cod_profissional, r) ==
    IF r.raised
    THEN [valido |-> FALSE, nome |-> None, erro |-> "erro ao validar",
          log |-> {"belle_api_error", "erro_validar_profissional_estabelecimento"}]
    ELSE IF r.usuarios = <<>>
    THEN [valido |-> TRUE, nome |-> None, erro |-> None,
          log |-> {"nenhum_usuario_encontrado_no_estabelecimento"}]
    ELSE LET i == PrimeiroUsuario(cod_profissional, r.usuarios)
         IN  IF i = 0
             THEN [valido |-> FALSE, nome |-> None, erro |-> "nao pertence",
                   log |-> {"profissional_nao_pertence_ao_estabelecimento"}]
             ELSE IF r.usuarios[i].possui_agenda /= "Sim"
                  THEN [valido |-> FALSE, nome |-> r.usuarios[i].nom_usuario,
                        erro |-> "nao possui agenda", log |-> {}]
                  ELSE [valido |-> TRUE, nome |-> r.usuarios[i].nom_usuario,
                        erro |-> None, log |-> {}]

\* validar_profissional_no_estabelecimento taking an empty roster as a
\* professional that is not in the establishment.
validar_profissional_roster_vazio_invalido(cod_profissional, r) ==
    IF r.raised
    THEN [valido |-> TRUE, nome |-> None, erro |-> None,
          log |-> {"belle_api_error", "erro_validar_profissional_estabelecimento"}]
    ELSE LET i == PrimeiroUsuario(cod_profissional, r.usuarios)
         IN  IF i = 0
             THEN [valido |-> FALSE, nome |-> None, erro |-> "nao pertence",
                   log |-> IF r.usuarios = <<>>
                           THEN {"nenhum_usuario_encontrado_no_estabelecimento"}
                           ELSE {"profissional_nao_pertence_ao_estabelecimento"}]
             ELSE IF r.usuarios[i].possui_agenda /= "Sim"
                  THEN [valido |-> FALSE, nome |-> r.usuarios[i].nom_usuario,
                        erro |-> "nao possui agenda", log |-> {}]
                  ELSE [valido |-> TRUE, nome |-> r.usuarios[i].nom_usuario,
                        erro |-> None, log |-> {}]

validar_profissional_no_estabelecimento(cod_profissional, r) ==
    IF r.raised
    THEN [valido |-> TRUE, nome |-> None, erro |-> None,
          log |-> {"belle_api_error", "erro_validar_profissional_estabelecimento"}]
    ELSE IF r.usuarios = <<>>
    THEN [valido |-> TRUE, nome |-> None, erro |-> None,
          log |-> {"nenhum_usuario_encontrado_no_estabelecimento"}]
    ELSE LET i == PrimeiroUsuario(cod_profissional, r.usuarios)
         IN  IF i = 0
             THEN [valido |-> FALSE, nome |-> None, erro |-> "nao pertence",
                   log |-> {"profissional_nao_pertence_ao_estabelecimento"}]
             ELSE IF r.usuarios[i].possui_agenda /= "Sim"
                  THEN [valido |-> FALSE, nome |-> r.usuarios[i].nom_usuario,
                        erro |-> "nao possui agenda", log |-> {}]
                  ELSE [valido |-> TRUE, nome |-> r.usuarios[i].nom_usuario,
                        erro |-> None, log |-> {}]

\* processar_agendamento_get: the customer code of a cliente/gravar response.
CodigoClienteDaResposta(r) ==
    Or(r.codigo, Or(r.codCliente, Or(r.cod_cliente, r.id)))

\* agendamentos_add_legacy: the same, in the legacy handler's key order.
CodigoClienteDaRespostaLegacy(r) ==
    Or(r.codCliente, Or(r.codigo, Or(r.cod_cliente, r.id)))

\* criar_agendamento_belle: "Verifica se a Belle retornou erro na resposta".
BelleRetornouErro(r) == Truthy(r.msg) /\ ~Truthy(r.codAgendamento)

\* processar_agendamento_get and agendamentos_add_legacy: the booking code
\* taken from an agenda/gravar response.
CodigoAgendamentoDaResposta(r) ==
    Or(r.codAgendamento, Or(r.codigo_agendamento, Or(r.codigo, Or(r.id, "CRIADO"))))

\* processar_agendamento_json: the booking code taken from the response.
CodigoAgendamentoJson(r) == Or(r.codAgendamento, r.codigo_agendamento)

\* criar_agendamento_belle without its check of the response's message: only
\* the exception of belle_call leaves it.
criar_agendamento_belle_ignora_msg(r) ==
    IF r.raised THEN "http" ELSE None

\* criar_agendamento_belle, after belle_call: the exception it leaves with
\* ("http" from belle_call, "belle" for an error message without
\* codAgendamento), or None when it returns the response.
criar_agendamento_belle(r) ==
    IF r.raised THEN "http"
    ELSE IF BelleRetornouErro(r) THEN "belle"
    ELSE None

\* buscar_codigo_cliente_belle_no_contato, last step: the code read from
\* the contact.
CodigoBelleDoContato(contact_data) == contact_data[FIELD_CODIGO_CLIENTE_BELLE_CONTATO]

\* The customer code taken from the request or else from the lead's own
\* customer-code field.
CodigoClienteDoPedidoOuLead(ev, lead_info) ==
    Or(ev.codigo_cliente_belle, lead_info.fields[FIELD_CODIGO_CLIENTE_BELLE])

\* processar_agendamento_get, "codigo_cliente_final = codigo_cliente_belle":
\* the customer code the handler starts from is the request's parameter;
\* lead_info is at hand but its customer-code field is not read.
CodigoClienteDoPedido(ev, lead_info) == ev.codigo_cliente_belle

\* datetime.strptime(f"{data} {hora}:00", "%d/%m/%Y %H:%M:%S") formatted as
\* "%Y-%m-%dT%H:%M:%S-04:00"; the unparsed text when strptime fails.
DataIso(data, hora) ==
    IF data = "10/12/2026" /\ hora = "14:30" THEN "2026-12-10T14:30:00-04:00"
    ELSE data \o " " \o hora \o ":00"

\* adicionar_comentario_lead: appends the comment when the CRM call succeeds
\* (ok); any exception of the call is caught inside.
adicionar_comentario_lead(timeline, comentario, ok) ==
    [comments |-> IF ok THEN Append(timeline, comentario) ELSE timeline,
     raised |-> FALSE,
     log |-> IF ok THEN {} ELSE {"bitrix_api_error", "erro_adicionar_comentario"}]

\* atualizar_lead without its "except Exception": a failed CRM call
\* propagates to the caller.
atualizar_lead_propagates(fields, campos, ok) ==
    [leadFields |-> IF ok THEN Merge(fields, campos) ELSE fields,
     raised |-> ~ok,
     log |-> IF ok THEN {} ELSE {"bitrix_api_error"}]

\* atualizar_lead writing only the fields of the lead that hold no value
\* yet: what an earlier update wrote stays.
atualizar_lead_so_vazios(fields, campos, ok) ==
    [leadFields |-> IF ok
                    THEN [k \in DOMAIN fields \cup DOMAIN campos |->
                            IF k \in DOMAIN fields /\ Truthy(fields[k]) THEN fields[k]
                            ELSE IF k \in DOMAIN campos THEN campos[k] ELSE fields[k]]
                    ELSE fields,
     raised |-> FALSE,
     log |-> IF ok THEN {} ELSE {"bitrix_api_error", "erro_atualizar_lead"}]

\* atualizar_lead: writes campos when the CRM call succeeds (ok); any
\* exception of the call is caught inside.
atualizar_lead(fields, campos, ok) ==
    [leadFields |-> IF ok THEN Merge(fields, campos) ELSE fields,
     raised |-> FALSE,
     log |-> IF ok THEN {} ELSE {"bitrix_api_error", "erro_atualizar_lead"}]

-----------------------------------------------------------------------------
(* Bounds and the values the gateways answer with                          *)

MaxRoster == 2

UsuarioEntries ==
    { [cod_usuario |-> c,
       nom_usuario |-> IF StripUpper(c) = "KELLY" THEN "Dra Kelly da Cas" ELSE "Nadya Ribeiro",
       possui_agenda |-> a] : c \in {"KELLY", " kelly ", "39340"}, a \in {"Sim", "Nao"} }

NoResp == [kind |-> "none"]

RosterResponses ==
    { [kind |-> "roster", raised |-> TRUE, usuarios |-> <<>>] }
    \cup { [kind |-> "roster", raised |-> FALSE, usuarios |-> u] :
             u \in UNION { [1..k -> UsuarioEntries] : k \in 0..MaxRoster } }

AgendaResponses ==
    { [kind |-> "agenda", raised |-> TRUE, codAgendamento |-> None,
       codigo_agendamento |-> None, codigo |-> None, id |-> None, msg |-> None] }
    \cup { [kind |-> "agenda", raised |-> FALSE, codAgendamento |-> a,
            codigo_agendamento |-> b, codigo |-> c, id |-> d, msg |-> m] :
             a \in {None, "9001"}, b \in {None, "9002"}, c \in {None, "9002"},
             d \in {None, "9002"}, m \in {None, "Horario indisponivel"} }

ClienteResponses ==
    { [kind |-> "cliente", raised |-> TRUE, codigo |-> None, codCliente |-> None,
       cod_cliente |-> None, id |-> None] }
    \cup { [kind |-> "cliente", raised |-> FALSE, codigo |-> a, codCliente |-> b, cod_cliente |-> c, id |-> d] :
             a \in {None, "88"}, b \in {None, "88"}, c \in {None, "88"}, d \in {None, "88"} }

EmptyLead == [k \in LeadKeys |-> None]
NoLead == [found |-> FALSE, fields |-> EmptyLead]

Call(m, s) == [method |-> m, stage |-> s]

NoResult ==
    [como |-> "pending", success |-> FALSE, message |-> None, campos |-> <<>>,
     erro_tipo |-> None, codigo_agendamento |-> None, codigo_cliente_belle |-> None,
     warning |-> None]

NoFalha == [tipo |-> None, como |-> None]

InitFrame ==
    [pc |-> "start", campos_faltando |-> <<>>, estab_bitrix |-> 0, estab_belle |-> 0, warning |-> None,
     prof_valido |-> FALSE, nome_prof_validado |-> None, erro_prof |-> None,
     lead_info |-> NoLead, contact_id |-> None, codigo_cliente_belle |-> None,
     cliente_criado_agora |-> FALSE, codigo_agendamento |-> None,
     lead_data |-> NoLead, deal_id |-> 0, falha |-> NoFalha, resp |-> NoResp,
     calls |-> <<>>, log |-> {}, result |-> NoResult]

-----------------------------------------------------------------------------
(* Events                                                                  *)

LeadIds == {101}

GetEvents ==
    [handler : {"get"}, lead_id : LeadIds,
     codigo_cliente_belle : {None, "77", "abc"},
     dataagendamento : {"", "10/12/2026"},
     horario : {"", "14:30"},
     profissional : {"", "kelly"},
     estabelecimento : {"", "1", "238", "242", "999", "abc"},
     tipoagenda : {"Consulta"},
     procedimento : {"", "4"},
     equipamento : {None},
     tipo_atendimento : {None}]

JsonEvents ==
    [handler : {"json"}, lead_id : LeadIds,
     codigo_cliente_belle : {None, "77"},
     data_agendamento : {"10/12/2026"},
     horario : {"14:30"},
     estabelecimento_codigo : {1, 999},
     estabelecimento_nome : {None},
     profissional_codigo : {39340},
     profissional_nome : {None},
     tipo_agendamento : {"Consulta"},
     servicos : {"4"},
     equipamento_nome : {None},
     agendador : {None}]

LegacyEvents ==
    [handler : {"legacy"}, ID : {None, "101"},
     dtAgd : {"", "10/12/2026"},
     hri : {"", "14:30"},
     codEstab : {"", "1"},
     id_item_estab : {"", "238", "999"},
     codCli : {"", "77"},
     contatoCPF : {"", "12345678901"},
     entidade : {"lead", "deal"}]

Events == GetEvents \cup JsonEvents \cup LegacyEvents

Init ==
    /\ procs = {1}
    /\ event \in [procs -> Events]
    /\ frame = [p \in procs |-> InitFrame]
    /\ \E contact \in {None, "c1"}, codLead \in {None, "66"} :
         leadFields = [EmptyLead EXCEPT !["CONTACT_ID"] = contact,
                                        ![FIELD_CODIGO_CLIENTE_BELLE] = codLead]
    /\ contactFields \in [{FIELD_CODIGO_CLIENTE_BELLE_CONTATO} -> {None, "55"}]
    /\ leadFields["CONTACT_ID"] = None => contactFields[FIELD_CODIGO_CLIENTE_BELLE_CONTATO] = None
    /\ comments = <<>>
    /\ deals = <<>>

Upd(p, r) == frame' = [frame EXCEPT ![p] = Merge(@, r)]

Issued(p, m, s) == Append(frame[p].calls, Call(m, s))

\* The warnings and errors logged so far, with those of S.
Logged(p, S) == frame[p].log \cup S

\* A terminal failure: the comment on the lead is attempted next, then the
\* failure is returned (como = "return") or raised as HTTP 500 ("raise").
Falha(tipo, como) == [tipo |-> tipo, como |-> como]

\* A lenient parse of the establishment: text that is no integer becomes 0
\* instead of raising.
EstabelecimentoIntLenient(estabelecimento) ==
    IF estabelecimento \in IntStrings
    THEN [raised |-> FALSE, valor |-> IntOf(estabelecimento)]
    ELSE [raised |-> FALSE, valor |-> 0]

\* "estab_bitrix = int(estabelecimento) if estabelecimento else 0": raised
\* is the ValueError of int().
EstabelecimentoInt(estabelecimento) ==
    IF ~Truthy(estabelecimento) THEN [raised |-> FALSE, valor |-> 0]
    ELSE IF estabelecimento \in IntStrings
    THEN [raised |-> FALSE, valor |-> IntOf(estabelecimento)]
    ELSE [raised |-> TRUE, valor |-> 0]

-----------------------------------------------------------------------------
(* processar_agendamento_get                                               *)

\* Required fields, then int(estabelecimento) and the table part of
\* converter_estabelecimento_para_belle.
G_Validate(p) ==
    /\ event[p].handler = "get"
    /\ frame[p].pc = "start"
    /\ LET ev == event[p]
           faltando == CamposFaltando(ev)
           n == EstabelecimentoInt(ev.estabelecimento)
       IN  IF faltando /= <<>>
           THEN Upd(p, [pc |-> "comment_falha", campos_faltando |-> faltando,
                        falha |-> Falha("campos_faltando", "return"),
                        log |-> Logged(p, {"campos_faltando"})])
           ELSE IF n.raised
           THEN Upd(p, [pc |-> "comment_falha", falha |-> Falha("erro_processar", "raise"),
                        log |-> Logged(p, {"erro_processar_agendamento"})])
           ELSE LET estab_bitrix == n.valor
                    estab == EstabelecimentoEstatico(estab_bitrix)
                IN  IF estab /= 0
                    THEN Upd(p, [pc |-> "valida_estab", estab_bitrix |-> estab_bitrix,
                                 estab_belle |-> estab])
                    ELSE Upd(p, [pc |-> "estab_lookup", estab_bitrix |-> estab_bitrix])
    /\ UNCHANGED <<procs, event, leadFields, contactFields, comments, deals>>

\* The CRM lookup of the establishment as a fatal stage: a failed or empty
\* lookup ends the request as a processing error.
EstabLookupFatal(p) ==
    /\ frame[p].pc = "estab_lookup"
    /\ \E o \in {"error", "vazio", "14"} :
         IF o \in IntStrings
         THEN Upd(p, [pc |-> "valida_estab", estab_belle |-> IntOf(o),
                      calls |-> Issued(p, "lists.element.get", "estabelecimento")])
         ELSE Upd(p, [pc |-> "comment_falha", falha |-> Falha("erro_processar", "raise"),
                      log |-> Logged(p, {"erro_buscar_estabelecimento_api",
                                         "estabelecimento_nao_mapeado"}),
                      calls |-> Issued(p, "lists.element.get", "estabelecimento")])
    /\ UNCHANGED <<procs, event, leadFields, contactFields, comments, deals>>

\* converter_estabelecimento_para_belle, the CRM lookup (lists.element.get):
\* o is the call's outcome, "error", "vazio" or the element's ID text.
EstabLookup(p) ==
    /\ frame[p].pc = "estab_lookup"
    /\ \E o \in {"error", "vazio", "14"} :
         LET estab == IF o \in IntStrings THEN IntOf(o) ELSE frame[p].estab_bitrix
             lg == CASE o = "error" -> {"bitrix_api_error", "erro_buscar_estabelecimento_api",
                                        "estabelecimento_nao_mapeado"}
                     [] o = "vazio" -> {"estabelecimento_nao_mapeado"}
                     [] OTHER -> {}
         IN  Upd(p, [pc |-> "valida_estab", estab_belle |-> estab,
                     log |-> Logged(p, lg),
                     calls |-> Issued(p, "lists.element.get", "estabelecimento")])
    /\ UNCHANGED <<procs, event, leadFields, contactFields, comments, deals>>

\* validar_estabelecimento and its warning comment.
G_AvisoEstabelecimento(p) ==
    /\ event[p].handler = "get"
    /\ frame[p].pc = "valida_estab"
    /\ LET aviso == validar_estabelecimento(frame[p].estab_belle)
       IN  IF aviso /= None
           THEN \E ok \in BOOLEAN :
                  LET c == adicionar_comentario_lead(comments, "aviso_estabelecimento", ok)
                  IN
                  /\ comments' = c.comments
                  /\ Upd(p, [pc |-> "roster_call", warning |-> aviso,
                             log |-> Logged(p, c.log),
                             calls |-> Issued(p, "crm.timeline.comment.add", "aviso")])
           ELSE /\ Upd(p, [pc |-> "roster_call"])
                /\ UNCHANGED comments
    /\ UNCHANGED <<procs, event, leadFields, contactFields, deals>>

\* validar_profissional_no_estabelecimento: the usuario/buscar request.
G_RosterCall(p) ==
    /\ event[p].handler = "get"
    /\ frame[p].pc = "roster_call"
    /\ \E r \in RosterResponses :
         Upd(p, [pc |-> "roster_resp", resp |-> r,
                 calls |-> Issued(p, "usuario/buscar", "roster")])
    /\ UNCHANGED <<procs, event, leadFields, contactFields, comments, deals>>

\* validar_profissional_no_estabelecimento on the response, and the
\* handler's "if not prof_valido".
G_RosterResp(p) ==
    /\ event[p].handler = "get"
    /\ frame[p].pc = "roster_resp"
    /\ LET v == validar_profissional_no_estabelecimento(event[p].profissional, frame[p].resp)
       IN  IF ~v.valido
           THEN Upd(p, [pc |-> "comment_falha", resp |-> NoResp, prof_valido |-> FALSE,
                        nome_prof_validado |-> v.nome, erro_prof |-> v.erro,
                        falha |-> Falha("profissional_invalido", "return"),
                        log |-> Logged(p, v.log \cup {"profissional_invalido_para_estabelecimento"})])
           ELSE Upd(p, [pc |-> "lead_get", resp |-> NoResp, prof_valido |-> TRUE,
                        nome_prof_validado |-> v.nome, log |-> Logged(p, v.log)])
    /\ UNCHANGED <<procs, event, leadFields, contactFields, comments, deals>>

\* crm.lead.get for lead_info, then the customer code of the request.
G_LeadGet(p) ==
    /\ event[p].handler = "get"
    /\ frame[p].pc = "lead_get"
    /\ \E ok \in BOOLEAN :
         LET info == IF ok THEN [found |-> TRUE, fields |-> leadFields] ELSE NoLead
             codigo_cliente_final == CodigoClienteDoPedido(event[p], info)
             lg == Logged(p, IF ok THEN {} ELSE {"bitrix_api_error", "erro_buscar_lead"})
         IN  IF Truthy(codigo_cliente_final)
             THEN Upd(p, [pc |-> "book_call", lead_info |-> info, log |-> lg,
                          codigo_cliente_belle |-> codigo_cliente_final,
                          calls |-> Issued(p, "crm.lead.get", "lead_info")])
             ELSE Upd(p, [pc |-> "busca_lead", lead_info |-> info, log |-> lg,
                          calls |-> Issued(p, "crm.lead.get", "lead_info")])
    /\ UNCHANGED <<procs, event, leadFields, contactFields, comments, deals>>

\* buscar_codigo_cliente_belle_no_contato: crm.lead.get for CONTACT_ID.
G_BuscaLead(p) ==
    /\ event[p].handler = "get"
    /\ frame[p].pc = "busca_lead"
    /\ \E ok \in BOOLEAN :
         LET contact_id == IF ok THEN leadFields["CONTACT_ID"] ELSE None
         IN  IF Truthy(contact_id)
             THEN Upd(p, [pc |-> "busca_contato", contact_id |-> contact_id,
                          calls |-> Issued(p, "crm.lead.get", "busca_contato")])
             ELSE Upd(p, [pc |-> "criar_cliente",
                          log |-> Logged(p, (IF ok THEN {}
                                             ELSE {"bitrix_api_error",
                                                   "erro_buscar_codigo_cliente_contato"})
                                            \cup {"cliente_belle_nao_encontrado_no_contato"}),
                          calls |-> Issued(p, "crm.lead.get", "busca_contato")])
    /\ UNCHANGED <<procs, event, leadFields, contactFields, comments, deals>>

\* buscar_codigo_cliente_belle_no_contato: crm.contact.get for the code.
G_BuscaContato(p) ==
    /\ event[p].handler = "get"
    /\ frame[p].pc = "busca_contato"
    /\ \E ok \in BOOLEAN :
         LET codigo_belle == IF ok THEN CodigoBelleDoContato(contactFields) ELSE None
         IN  IF Truthy(codigo_belle)
             THEN Upd(p, [pc |-> "book_call", codigo_cliente_belle |-> codigo_belle,
                          calls |-> Issued(p, "crm.contact.get", "busca_contato")])
             ELSE Upd(p, [pc |-> "criar_cliente",
                          log |-> Logged(p, (IF ok
                                             THEN {"codigo_belle_nao_encontrado_no_contato"}
                                             ELSE {"bitrix_api_error",
                                                   "erro_buscar_codigo_cliente_contato"})
                                            \cup {"cliente_belle_nao_encontrado_no_contato"}),
                          calls |-> Issued(p, "crm.contact.get", "busca_contato")])
    /\ UNCHANGED <<procs, event, leadFields, contactFields, comments, deals>>

\* "3.1 Se não tem código de cliente Belle": the cliente/gravar request of
\* criar_cliente_belle.
G_CriarCliente(p) ==
    /\ event[p].handler = "get"
    /\ frame[p].pc = "criar_cliente"
    /\ \E r \in ClienteResponses :
         Upd(p, [pc |-> "cliente_resp", resp |-> r,
                 calls |-> Issued(p, "cliente/gravar", "cliente")])
    /\ UNCHANGED <<procs, event, leadFields, contactFields, comments, deals>>

\* What agendamentos_add_legacy does with the response of cliente/gravar,
\* in the shape of ResolverCliente: a failure is logged and the booking goes
\* on without a customer.
ResolverClienteSemCliente(r) ==
    IF r.raised
    THEN [pc |-> "book_call", falha |-> NoFalha, codigo |-> None, criado |-> FALSE,
          log |-> {"belle_api_error", "erro_criar_cliente_cpf"}]
    ELSE LET codigo == CodigoClienteDaResposta(r)
         IN  IF Truthy(codigo)
             THEN [pc |-> "update_codigo", falha |-> NoFalha, codigo |-> codigo,
                   criado |-> TRUE, log |-> {}]
             ELSE [pc |-> "done", falha |-> Falha("cliente_belle_obrigatorio", "return"),
                   codigo |-> None, criado |-> FALSE, log |-> {"cliente_belle_obrigatorio"}]

\* The response of cliente/gravar handled with a retry: after an exception
\* of the call the handler issues cliente/gravar again.
ResolverClienteDeNovo(r) ==
    IF r.raised
    THEN [pc |-> "criar_cliente", falha |-> NoFalha, codigo |-> None, criado |-> FALSE,
          log |-> {"belle_api_error"}]
    ELSE LET codigo == CodigoClienteDaResposta(r)
         IN  IF Truthy(codigo)
             THEN [pc |-> "update_codigo", falha |-> NoFalha, codigo |-> codigo,
                   criado |-> TRUE, log |-> {}]
             ELSE [pc |-> "done", falha |-> Falha("cliente_belle_obrigatorio", "return"),
                   codigo |-> None, criado |-> FALSE, log |-> {"cliente_belle_obrigatorio"}]

\* What processar_agendamento_get does with the response r of cliente/gravar:
\* the exception of the call is a terminal failure with a comment; a code in
\* the response goes on to the lead update; no code returns at once
\* ("Valida que temos um código de cliente").
ResolverCliente(r) ==
    IF r.raised
    THEN [pc |-> "comment_falha", falha |-> Falha("erro_criar_cliente", "return"),
          codigo |-> None, criado |-> FALSE,
          log |-> {"belle_api_error", "erro_criar_cliente_belle"}]
    ELSE LET codigo == CodigoClienteDaResposta(r)
         IN  IF Truthy(codigo)
             THEN [pc |-> "update_codigo", falha |-> NoFalha, codigo |-> codigo,
                   criado |-> TRUE, log |-> {}]
             ELSE [pc |-> "done", falha |-> Falha("cliente_belle_obrigatorio", "return"),
                   codigo |-> None, criado |-> FALSE, log |-> {"cliente_belle_obrigatorio"}]

G_CriarClienteResp(p) ==
    /\ event[p].handler = "get"
    /\ frame[p].pc = "cliente_resp"
    /\ LET d == ResolverCliente(frame[p].resp)
       IN  Upd(p, [pc |-> d.pc, resp |-> NoResp, falha |-> d.falha,
                   codigo_cliente_belle |-> d.codigo, cliente_criado_agora |-> d.criado,
                   log |-> Logged(p, d.log),
                   result |-> IF d.pc = "done"
                              THEN [NoResult EXCEPT !.como = "return",
                                                    !.message = d.falha.tipo]
                              ELSE NoResult])
    /\ UNCHANGED <<procs, event, leadFields, contactFields, comments, deals>>

\* "Atualiza o campo no Bitrix com o código criado".
G_AtualizaCodigo(p) ==
    /\ event[p].handler = "get"
    /\ frame[p].pc = "update_codigo"
    /\ \E ok \in BOOLEAN :
         LET u == atualizar_lead(leadFields,
                     (FIELD_CODIGO_CLIENTE_BELLE :> frame[p].codigo_cliente_belle), ok)
         IN
         /\ leadFields' = u.leadFields
         /\ Upd(p, [pc |-> "book_call",
                    log |-> Logged(p, u.log \cup (IF u.raised
                                                  THEN {"erro_atualizar_bitrix_codigo_belle"}
                                                  ELSE {})),
                    calls |-> Issued(p, "crm.lead.update", "codigo_cliente")])
    /\ UNCHANGED <<procs, event, contactFields, comments, deals>>

\* The booking step made idempotent: when the lead already holds a booking
\* code the handler returns success without a booking call.
G_BookCallIdempotente(p) ==
    /\ event[p].handler = "get"
    /\ frame[p].pc = "book_call"
    /\ IF Truthy(leadFields[FIELD_CODIGO_AGENDAMENTO])
       THEN Upd(p, [pc |-> "done",
                    result |-> [NoResult EXCEPT !.como = "return", !.success = TRUE,
                                                !.message = "Agendamento processado com sucesso"]])
       ELSE \E r \in AgendaResponses :
              Upd(p, [pc |-> "book_resp", resp |-> r,
                      calls |-> Issued(p, "agenda/gravar", "agendamento")])
    /\ UNCHANGED <<procs, event, leadFields, contactFields, comments, deals>>

\* "4. Cria o agendamento na Belle": int(codigo_cliente_belle) and the
\* agenda/gravar request of criar_agendamento_belle.
G_BookCall(p) ==
    /\ event[p].handler = "get"
    /\ frame[p].pc = "book_call"
    /\ IF Truthy(frame[p].codigo_cliente_belle) /\ frame[p].codigo_cliente_belle \notin IntStrings
       THEN Upd(p, [pc |-> "comment_falha", falha |-> Falha("erro_processar", "raise"),
                    log |-> Logged(p, {"erro_criar_agendamento_belle",
                                       "erro_processar_agendamento"})])
       ELSE \E r \in AgendaResponses :
              Upd(p, [pc |-> "book_resp", resp |-> r,
                      calls |-> Issued(p, "agenda/gravar", "agendamento")])
    /\ UNCHANGED <<procs, event, leadFields, contactFields, comments, deals>>

\* The booking response handled with a write to the lead on failure: the
\* booking-code field of the lead is set to "ERRO" before the failure.
G_BookRespMarcaErro(p) ==
    /\ event[p].handler = "get"
    /\ frame[p].pc = "book_resp"
    /\ LET r == frame[p].resp
           e == criar_agendamento_belle(r)
       IN  IF e \in {"http", "belle"}
           THEN /\ leadFields' = [leadFields EXCEPT ![FIELD_CODIGO_AGENDAMENTO] = "ERRO"]
                /\ Upd(p, [pc |-> "comment_falha", resp |-> NoResp,
                           log |-> Logged(p, {"erro_criar_agendamento_belle"}),
                           falha |-> Falha(IF e = "http" THEN "erro_http" ELSE "erro_processar",
                                           "raise")])
           ELSE /\ UNCHANGED leadFields
                /\ Upd(p, [pc |-> "update_lead", resp |-> NoResp,
                           codigo_agendamento |-> CodigoAgendamentoDaResposta(r)])
    /\ UNCHANGED <<procs, event, contactFields, comments, deals>>

\* criar_agendamento_belle on the response, and the handler's booking code.
G_BookResp(p) ==
    /\ event[p].handler = "get"
    /\ frame[p].pc = "book_resp"
    /\ LET r == frame[p].resp
           e == criar_agendamento_belle(r)
       IN  IF e = "http"
           THEN Upd(p, [pc |-> "comment_falha", resp |-> NoResp,
                        log |-> Logged(p, {"belle_api_error", "erro_criar_agendamento_belle",
                                           "erro_http_agendamento"}),
                        falha |-> Falha("erro_http", "raise")])
           ELSE IF e = "belle"
           THEN Upd(p, [pc |-> "comment_falha", resp |-> NoResp,
                        log |-> Logged(p, {"erro_criar_agendamento_belle",
                                           "erro_processar_agendamento"}),
                        falha |-> Falha("erro_processar", "raise")])
           ELSE Upd(p, [pc |-> "update_lead", resp |-> NoResp,
                        codigo_agendamento |-> CodigoAgendamentoDaResposta(r)])
    /\ UNCHANGED <<procs, event, leadFields, contactFields, comments, deals>>

\* "5. Atualiza campos do lead no Bitrix".
CamposAtualizar(ev, codigo_agendamento, codigo_cliente_belle) ==
    (FIELD_DATA_AGENDAMENTO :> DataIso(ev.dataagendamento, ev.horario))
    @@ (FIELD_CODIGO_AGENDAMENTO :> codigo_agendamento)
    @@ (FIELD_PROFISSIONAL :> ev.profissional)
    @@ (FIELD_ESTABELECIMENTO :> ev.estabelecimento)
    @@ (FIELD_PROCEDIMENTO :> ev.procedimento)
    @@ (FIELD_TIPO_CONSULTA :> ev.tipoagenda)
    @@ (IF Truthy(ev.equipamento) THEN (FIELD_EQUIPAMENTO :> ev.equipamento) ELSE <<>>)
    @@ (IF Truthy(codigo_cliente_belle)
        THEN (FIELD_CODIGO_CLIENTE_BELLE :> codigo_cliente_belle) ELSE <<>>)

G_UpdateLead(p) ==
    /\ event[p].handler = "get"
    /\ frame[p].pc = "update_lead"
    /\ \E ok \in BOOLEAN :
         LET u == atualizar_lead(leadFields,
                     CamposAtualizar(event[p], frame[p].codigo_agendamento,
                                     frame[p].codigo_cliente_belle), ok)
         IN  /\ leadFields' = u.leadFields
             /\ IF u.raised
                THEN Upd(p, [pc |-> "comment_falha", falha |-> Falha("erro_http", "raise"),
                             log |-> Logged(p, u.log \cup {"erro_http_agendamento"}),
                             calls |-> Issued(p, "crm.lead.update", "agendamento")])
                ELSE Upd(p, [pc |-> "comment_sucesso", log |-> Logged(p, u.log),
                             calls |-> Issued(p, "crm.lead.update", "agendamento")])
    /\ UNCHANGED <<procs, event, contactFields, comments, deals>>

\* "6. Monta comentário de sucesso".
G_ComentarioSucesso(p) ==
    /\ event[p].handler = "get"
    /\ frame[p].pc = "comment_sucesso"
    /\ \E ok \in BOOLEAN :
         LET c == adicionar_comentario_lead(comments, "sucesso", ok)
         IN  /\ comments' = c.comments
             /\ IF c.raised
                THEN Upd(p, [pc |-> "comment_falha", falha |-> Falha("erro_http", "raise"),
                             log |-> Logged(p, c.log \cup {"erro_http_agendamento"}),
                             calls |-> Issued(p, "crm.timeline.comment.add", "sucesso")])
                ELSE Upd(p, [pc |-> "conv_lead_get", log |-> Logged(p, c.log),
                             calls |-> Issued(p, "crm.timeline.comment.add", "sucesso")])
    /\ UNCHANGED <<procs, event, leadFields, contactFields, deals>>

\* converter_lead_para_negocio: crm.lead.get for lead_data.
Conv_LeadGet(p) ==
    /\ frame[p].pc = "conv_lead_get"
    /\ \E ok \in BOOLEAN :
         Upd(p, [pc |-> "deal_add",
                 lead_data |-> IF ok THEN [found |-> TRUE, fields |-> leadFields] ELSE NoLead,
                 log |-> Logged(p, IF ok THEN {}
                                   ELSE {"bitrix_api_error", "erro_buscar_lead_para_conversao"}),
                 calls |-> Issued(p, "crm.lead.get", "conversao")])
    /\ UNCHANGED <<procs, event, leadFields, contactFields, comments, deals>>

\* dados_extras["estabelecimento"]: the request's text in
\* processar_agendamento_get, str(dados.estabelecimento_codigo) in
\* processar_agendamento_json.
DadosEstabelecimento(ev) ==
    IF ev.handler = "get" THEN ev.estabelecimento ELSE ToString(ev.estabelecimento_codigo)

\* The keys of dados_agendamento that converter_lead_para_negocio reads; a key
\* that is absent holds None (dict.get).
DadosKeys ==
    { "servico_nome", "data_agendamento", "codigo_agendamento", "profissional",
      "estabelecimento", "procedimento", "tipo_consulta", "equipamento",
      "codigo_cliente_belle", "origem", "campanha", "tipo_paciente", "agendador",
      "segmento", "procedimento_lead", "tipo_atendimento_direto" }

SemDados == [k \in DadosKeys |-> None]

\* data_formatada = f"{data} {hora}:00"
DataFormatada(data, hora) == data \o " " \o hora \o ":00"

\* The keys the handlers copy from lead_info into dados_extras, each only
\* when its value is not empty; comAgendador is the agendador already in
\* dados_extras (processar_agendamento_json).
DadosDoLead(lead_info, comAgendador) ==
    IF ~lead_info.found THEN [SemDados EXCEPT !["agendador"] = comAgendador]
    ELSE [SemDados EXCEPT
            !["origem"] = Or(lead_info.fields[LEAD_FIELD_ORIGEM], None),
            !["campanha"] = Or(lead_info.fields[LEAD_FIELD_CAMPANHA], None),
            !["tipo_paciente"] = Or(lead_info.fields[LEAD_FIELD_TIPO_PACIENTE], None),
            !["agendador"] = Or(lead_info.fields[LEAD_FIELD_AGENDADOR], comAgendador),
            !["segmento"] = Or(lead_info.fields[LEAD_FIELD_SEGMENTO], None),
            !["procedimento_lead"] = Or(lead_info.fields[LEAD_FIELD_PROCEDIMENTO], None)]

\* "tipo_atend_id = TIPO_ATENDIMENTO_TEXTO_PARA_ID.get(tipo_atend_upper,
\* tipo_atendimento)" of processar_agendamento_get.
TipoAtendimentoDireto(tipo_atendimento) ==
    IF ~Truthy(tipo_atendimento) THEN None
    ELSE IF StripUpper(tipo_atendimento) \in DOMAIN TIPO_ATENDIMENTO_TEXTO_PARA_ID
    THEN TIPO_ATENDIMENTO_TEXTO_PARA_ID[StripUpper(tipo_atendimento)]
    ELSE tipo_atendimento

\* dados_extras of processar_agendamento_get ("7. Converte lead em negócio")
\* and of processar_agendamento_json ("6. Converte lead em negócio").
DadosExtras(ev, f) ==
    IF ev.handler = "get"
    THEN [DadosDoLead(f.lead_info, None) EXCEPT
            !["servico_nome"] = Or(ev.procedimento, "Servico"),
            !["data_agendamento"] = DataFormatada(ev.dataagendamento, ev.horario),
            !["codigo_agendamento"] = f.codigo_agendamento,
            !["profissional"] = ev.profissional,
            !["estabelecimento"] = DadosEstabelecimento(ev),
            !["procedimento"] = ev.procedimento,
            !["tipo_consulta"] = ev.tipoagenda,
            !["equipamento"] = ev.equipamento,
            !["codigo_cliente_belle"] = Or(f.codigo_cliente_belle, None),
            !["tipo_atendimento_direto"] = TipoAtendimentoDireto(ev.tipo_atendimento)]
    ELSE [DadosDoLead(f.lead_info, Or(ev.agendador, None)) EXCEPT
            !["servico_nome"] = ev.servicos,
            !["data_agendamento"] = DataFormatada(ev.data_agendamento, ev.horario),
            !["codigo_agendamento"] = f.codigo_agendamento,
            !["profissional"] = ToString(ev.profissional_codigo),
            !["estabelecimento"] = DadosEstabelecimento(ev),
            !["procedimento"] = ev.servicos,
            !["tipo_consulta"] = ev.tipo_agendamento,
            !["equipamento"] = ev.equipamento_nome,
            !["codigo_cliente_belle"] = ev.codigo_cliente_belle]

\* deal_fields[k] = v
Put(deal_fields, k, v) == (k :> v) @@ deal_fields

PutIf(deal_fields, cond, k, v) == IF cond THEN Put(deal_fields, k, v) ELSE deal_fields

\* "deal_fields[DEAL_FIELD_PROCEDIMENTO] = [procedimento_bitrix]": the list
\* of one id, as its text.
Lista(id) == "[" \o id \o "]"

\* datetime.strptime(data_str, "%d/%m/%Y %H:%M:%S") formatted as
\* "%Y-%m-%dT%H:%M:%S-04:00"; the text itself when strptime raises ValueError.
DataAgendamentoIso(data_str) ==
    IF data_str = "10/12/2026 14:30:00" THEN "2026-12-10T14:30:00-04:00" ELSE data_str

\* converter_lead_para_negocio, "Campos padrão do Bitrix": each standard field
\* of the lead that is not empty.
CamposPadrao(lead_data) ==
    IF ~lead_data.found THEN <<>>
    ELSE [k \in {f \in StandardLeadFields : Truthy(lead_data.fields[f])} |->
            lead_data.fields[k]]

\* The same loop with no test of the value: every field of the map is written,
\* empty or not.
CamposCopiadosSemTeste(lead_data) ==
    IF ~lead_data.found THEN <<>>
    ELSE [k \in {LEAD_TO_DEAL_FIELD_MAP[f] : f \in DOMAIN LEAD_TO_DEAL_FIELD_MAP} |->
            LET lead_field == CHOOSE f \in DOMAIN LEAD_TO_DEAL_FIELD_MAP :
                                  LEAD_TO_DEAL_FIELD_MAP[f] = k
            IN  lead_data.fields[lead_field]]

\* The same loop with every value sent through converter_enum_lead_para_deal
\* under the field id of the origin field.
CamposCopiadosTudoEnum(lead_data) ==
    IF ~lead_data.found THEN <<>>
    ELSE LET S == {f \in DOMAIN LEAD_TO_DEAL_FIELD_MAP : Truthy(lead_data.fields[f])}
         IN  [k \in {LEAD_TO_DEAL_FIELD_MAP[f] : f \in S} |->
                LET lead_field == CHOOSE f \in S : LEAD_TO_DEAL_FIELD_MAP[f] = k
                IN  converter_enum_lead_para_deal(LEAD_FIELD_ORIGEM,
                                                  lead_data.fields[lead_field])]

\* converter_lead_para_negocio, the loop over LEAD_TO_DEAL_FIELD_MAP: the deal
\* field of every lead field whose value is not empty, with the value, which
\* for a field of ENUM_FIELDS goes through converter_enum_lead_para_deal.
CamposCopiados(lead_data) ==
    IF ~lead_data.found THEN <<>>
    ELSE LET S == {f \in DOMAIN LEAD_TO_DEAL_FIELD_MAP : Truthy(lead_data.fields[f])}
         IN  [k \in {LEAD_TO_DEAL_FIELD_MAP[f] : f \in S} |->
                LET lead_field == CHOOSE f \in S : LEAD_TO_DEAL_FIELD_MAP[f] = k
                    value == lead_data.fields[lead_field]
                IN  IF lead_field \in ENUM_FIELDS
                    THEN converter_enum_lead_para_deal(lead_field, value)
                    ELSE value]

\* converter_lead_para_negocio, "Adiciona dados extras do agendamento se
\* fornecidos": the assignments to deal_fields in the order of the source.
DadosSobrepostos(deal_fields, codigo_agendamento, dados) ==
    LET profissional_bitrix == converter_belle_para_bitrix_profissional(dados["profissional"])
        estabelecimento_bitrix ==
            converter_belle_para_bitrix_estabelecimento(dados["estabelecimento"])
        procedimento_bitrix == converter_procedimento_para_bitrix(dados["procedimento"])
        servico_bitrix == converter_procedimento_para_bitrix(dados["servico_nome"])
        segmento_bitrix == converter_belle_para_bitrix_segmento(dados["segmento"])
        o1 == PutIf(deal_fields, Truthy(codigo_agendamento),
                    DEAL_FIELD_CODIGO_AGENDAMENTO, codigo_agendamento)
        o2 == PutIf(o1, Truthy(dados["servico_nome"]),
                    DEAL_FIELD_PROCEDIMENTO_NOME, dados["servico_nome"])
        o3 == PutIf(o2, Truthy(dados["data_agendamento"]),
                    DEAL_FIELD_DATA_AGENDAMENTO, DataAgendamentoIso(dados["data_agendamento"]))
        o4 == PutIf(o3, Truthy(dados["profissional"]) /\ Truthy(profissional_bitrix),
                    DEAL_FIELD_PROFISSIONAL, profissional_bitrix)
        o5 == PutIf(o4, Truthy(dados["estabelecimento"]) /\ Truthy(estabelecimento_bitrix),
                    DEAL_FIELD_ESTABELECIMENTO, estabelecimento_bitrix)
        o6 == PutIf(o5, Truthy(dados["procedimento"]) /\ Truthy(procedimento_bitrix),
                    DEAL_FIELD_PROCEDIMENTO, Lista(procedimento_bitrix))
        o7 == PutIf(o6, /\ DEAL_FIELD_PROCEDIMENTO \notin DOMAIN o6
                        /\ Truthy(dados["servico_nome"]) /\ Truthy(servico_bitrix),
                    DEAL_FIELD_PROCEDIMENTO, Lista(servico_bitrix))
        o8 == IF Truthy(dados["tipo_atendimento_direto"])
              THEN Put(o7, DEAL_FIELD_TIPO_ATENDIMENTO, dados["tipo_atendimento_direto"])
              ELSE PutIf(o7, Truthy(dados["tipo_consulta"]), DEAL_FIELD_TIPO_ATENDIMENTO,
                         converter_enum_lead_para_deal(LEAD_FIELD_TIPO_ATENDIMENTO,
                                                       dados["tipo_consulta"]))
        o9 == PutIf(o8, Truthy(dados["equipamento"]),
                    DEAL_FIELD_EQUIPAMENTO, dados["equipamento"])
        o10 == PutIf(o9, Truthy(dados["codigo_cliente_belle"]),
                     DEAL_FIELD_CODIGO_CLIENTE_BELLE, dados["codigo_cliente_belle"])
        o11 == PutIf(o10, Truthy(dados["origem"]), DEAL_FIELD_ORIGEM,
                     converter_enum_lead_para_deal(LEAD_FIELD_ORIGEM, dados["origem"]))
        o12 == PutIf(o11, Truthy(dados["campanha"]), DEAL_FIELD_CAMPANHA,
                     converter_enum_lead_para_deal(LEAD_FIELD_CAMPANHA, dados["campanha"]))
        o13 == PutIf(o12, Truthy(dados["tipo_paciente"]), DEAL_FIELD_TIPO_PACIENTE,
                     converter_enum_lead_para_deal(LEAD_FIELD_TIPO_PACIENTE,
                                                   dados["tipo_paciente"]))
        o14 == PutIf(o13, Truthy(dados["agendador"]), DEAL_FIELD_AGENDADOR, dados["agendador"])
        o15 == PutIf(o14, Truthy(dados["segmento"]) /\ Truthy(segmento_bitrix),
                     DEAL_FIELD_SEGMENTO, segmento_bitrix)
        o16 == PutIf(o15, Truthy(dados["procedimento_lead"]),
                     DEAL_FIELD_PROCEDIMENTO, dados["procedimento_lead"])
    IN  o16

\* converter_lead_para_negocio: the fields sent to crm.deal.add. The pipeline
\* comes from dados_agendamento["estabelecimento"]; CONTACT_ID, the standard
\* fields and the fields of LEAD_TO_DEAL_FIELD_MAP are present only when the
\* lead has a value for them; then the values of dados_agendamento are put
\* over them.
DealFields(lead_id, lead_data, codigo_agendamento, dados) ==
    LET titulo == IF lead_data.found
                  THEN Or(lead_data.fields["TITLE"], Or(lead_data.fields["NAME"], "Novo Negocio"))
                  ELSE "Novo Negocio"
        estabelecimento_codigo == Or(dados["estabelecimento"], None)
        pipeline == obter_pipeline_por_estabelecimento(estabelecimento_codigo)
        contact_id == IF lead_data.found THEN lead_data.fields["CONTACT_ID"] ELSE None
        base == ("TITLE" :> titulo) @@ ("CATEGORY_ID" :> pipeline[1])
                @@ ("STAGE_ID" :> pipeline[2]) @@ ("LEAD_ID" :> lead_id)
        com_contato == PutIf(base, Truthy(contact_id), "CONTACT_ID", contact_id)
        copiados == CamposCopiados(lead_data) @@ CamposPadrao(lead_data) @@ com_contato
    IN  DadosSobrepostos(copiados, codigo_agendamento, dados)

\* The warnings converter_lead_para_negocio logs while it builds the fields.
DealFieldsLog(lead_data, dados) ==
    LET S == IF lead_data.found
             THEN {f \in DOMAIN LEAD_TO_DEAL_FIELD_MAP : Truthy(lead_data.fields[f])}
             ELSE {}
        aviso(cond, nomes) == IF cond THEN nomes ELSE {}
    IN  obter_pipeline_log(Or(dados["estabelecimento"], None))
        \cup UNION {converter_enum_log(f, lead_data.fields[f]) : f \in S}
        \cup aviso(/\ Truthy(dados["data_agendamento"])
                   /\ DataAgendamentoIso(dados["data_agendamento"]) = dados["data_agendamento"],
                   {"data_agendamento_formato_invalido"})
        \cup aviso(/\ Truthy(dados["profissional"])
                   /\ ~Truthy(converter_belle_para_bitrix_profissional(dados["profissional"])),
                   {"profissional_sem_mapeamento_belle_bitrix",
                    "profissional_usando_valor_original"})
        \cup aviso(/\ Truthy(dados["estabelecimento"])
                   /\ ~Truthy(converter_belle_para_bitrix_estabelecimento(dados["estabelecimento"])),
                   {"estabelecimento_sem_mapeamento_belle_bitrix",
                    "estabelecimento_usando_valor_original"})
        \cup aviso(/\ Truthy(dados["procedimento"])
                   /\ ~Truthy(converter_procedimento_para_bitrix(dados["procedimento"])),
                   {"procedimento_sem_mapeamento_bitrix", "procedimento_nao_mapeado"})
        \cup aviso(/\ Truthy(dados["servico_nome"])
                   /\ ~Truthy(converter_procedimento_para_bitrix(dados["servico_nome"])),
                   {"procedimento_sem_mapeamento_bitrix"})
        \cup (IF Truthy(dados["tipo_atendimento_direto"]) THEN {}
              ELSE converter_enum_log(LEAD_FIELD_TIPO_ATENDIMENTO, dados["tipo_consulta"]))
        \cup converter_enum_log(LEAD_FIELD_ORIGEM, dados["origem"])
        \cup converter_enum_log(LEAD_FIELD_CAMPANHA, dados["campanha"])
        \cup converter_enum_log(LEAD_FIELD_TIPO_PACIENTE, dados["tipo_paciente"])
        \cup aviso(/\ Truthy(dados["segmento"])
                   /\ ~Truthy(converter_belle_para_bitrix_segmento(dados["segmento"])),
                   {"segmento_usando_valor_original"})

\* The handler going back to the lead's update once the conversion returned.
AposConversaoAtualizaLead(handler, sucesso) ==
    IF handler = "get" THEN "update_lead" ELSE "sucesso"

\* What the handler does once converter_lead_para_negocio returned:
\* processar_agendamento_get adds the line item when the conversion
\* succeeded with a deal id, and returns success either way;
\* processar_agendamento_json returns success.
AposConversao(handler, sucesso) ==
    IF handler = "get" /\ sucesso THEN "produto" ELSE "sucesso"

Sucesso(f) ==
    [NoResult EXCEPT !.como = "return", !.success = TRUE,
                     !.message = "Agendamento processado com sucesso",
                     !.codigo_agendamento = f.codigo_agendamento,
                     !.codigo_cliente_belle = f.codigo_cliente_belle,
                     !.warning = f.warning]

\* The frame after pc moved to nxt: "sucesso" is the handler's return.
Avanca(p, nxt, r) ==
    IF nxt = "sucesso"
    THEN Upd(p, Merge(r, [pc |-> "done", result |-> Sucesso(frame[p])]))
    ELSE Upd(p, Merge(r, [pc |-> nxt]))

\* converter_lead_para_negocio marking the lead converted whatever crm.deal.add
\* answered: the status update follows a creation that raised or gave no id.
Conv_DealAddMarcaSempre(p) ==
    /\ frame[p].pc = "deal_add"
    /\ \E o \in {"error", "sem_resultado", "ok"} :
         LET issued == Issued(p, "crm.deal.add", "conversao")
             dados == DadosExtras(event[p], frame[p])
             fields == DealFields(event[p].lead_id, frame[p].lead_data,
                                  frame[p].codigo_agendamento, dados)
         IN  IF o = "ok"
             THEN /\ deals' = Append(deals, Put(fields, "rows", <<>>))
                  /\ Upd(p, [pc |-> "mark_converted", deal_id |-> Len(deals) + 1,
                             calls |-> issued])
             ELSE /\ UNCHANGED deals
                  /\ Upd(p, [pc |-> "mark_converted", calls |-> issued,
                             log |-> Logged(p, {"falha_criar_negocio"})])
    /\ UNCHANGED <<procs, event, leadFields, contactFields, comments>>

\* converter_lead_para_negocio: crm.deal.add; o is the call's outcome.
Conv_DealAdd(p) ==
    /\ frame[p].pc = "deal_add"
    /\ \E o \in {"error", "sem_resultado", "ok"} :
         LET issued == Issued(p, "crm.deal.add", "conversao")
             dados == DadosExtras(event[p], frame[p])
             fields == DealFields(event[p].lead_id, frame[p].lead_data,
                                  frame[p].codigo_agendamento, dados)
             avisos == DealFieldsLog(frame[p].lead_data, dados)
         IN  IF o = "ok"
             THEN /\ deals' = Append(deals, Put(fields, "rows", <<>>))
                  /\ Upd(p, [pc |-> "mark_converted", deal_id |-> Len(deals) + 1,
                             calls |-> issued, log |-> Logged(p, avisos)])
             ELSE /\ UNCHANGED deals
                  /\ Avanca(p, AposConversao(event[p].handler, FALSE),
                            [calls |-> issued,
                             log |-> Logged(p, avisos \cup
                                               IF o = "error"
                                               THEN {"bitrix_api_error", "erro_criar_negocio",
                                                     "falha_criar_negocio"}
                                               ELSE {"deal_add_sem_resultado",
                                                     "falha_criar_negocio"})])
    /\ UNCHANGED <<procs, event, leadFields, contactFields, comments>>

\* converter_lead_para_negocio: "Fecha o lead como convertido"; an exception
\* of the call is caught and the conversion still reports success.
Conv_MarkConverted(p) ==
    /\ frame[p].pc = "mark_converted"
    /\ \E ok \in BOOLEAN :
         /\ leadFields' = IF ok THEN [leadFields EXCEPT !["STATUS_ID"] = "CONVERTED"]
                          ELSE leadFields
         /\ Avanca(p, AposConversao(event[p].handler, TRUE),
                   [calls |-> Issued(p, "crm.lead.update", "convertido"),
                    log |-> Logged(p, IF ok THEN {}
                                      ELSE {"bitrix_api_error", "erro_marcar_lead_convertido"})])
    /\ UNCHANGED <<procs, event, contactFields, comments, deals>>

\* adicionar_produto_ao_deal setting the rows of the deal created last,
\* whatever deal_id it is given.
adicionar_produto_ao_ultimo_deal(ds, deal_id, produto_nome, ok) ==
    [deals |-> IF ok THEN [ds EXCEPT ![Len(ds)].rows = <<produto_nome>>] ELSE ds,
     raised |-> FALSE,
     log |-> IF ok THEN {} ELSE {"bitrix_api_error", "excecao_adicionar_produto_deal"}]

\* adicionar_produto_ao_deal: sets the deal's product rows when the CRM call
\* succeeds (ok); any exception of the call is caught inside.
adicionar_produto_ao_deal(ds, deal_id, produto_nome, ok) ==
    [deals |-> IF ok THEN [ds EXCEPT ![deal_id].rows = <<produto_nome>>] ELSE ds,
     raised |-> FALSE,
     log |-> IF ok THEN {} ELSE {"bitrix_api_error", "excecao_adicionar_produto_deal"}]

\* nome_servico = servico_info.get("nomeServico") or procedimento or "Servico"
\* for a procedimento that is one bare code.
NomeServico(ev) == Or(ev.procedimento, "Servico")

\* "Adiciona produto (procedimento) à aba Orçamento do Deal", then return.
G_Produto(p) ==
    /\ event[p].handler = "get"
    /\ frame[p].pc = "produto"
    /\ \E ok \in BOOLEAN :
         LET a == adicionar_produto_ao_deal(deals, frame[p].deal_id, NomeServico(event[p]), ok)
         IN  /\ deals' = a.deals
             /\ IF a.raised
                THEN Upd(p, [pc |-> "comment_falha", falha |-> Falha("erro_http", "raise"),
                             log |-> Logged(p, a.log \cup {"erro_http_agendamento"}),
                             calls |-> Issued(p, "crm.deal.productrows.set", "produto")])
                ELSE Avanca(p, "sucesso",
                            [calls |-> Issued(p, "crm.deal.productrows.set", "produto"),
                             log |-> Logged(p, a.log)])
    /\ UNCHANGED <<procs, event, leadFields, contactFields, comments>>

\* Every failure result tagged as an invalid professional.
ErroTipoSempre(falha) == "profissional_invalido"

\* The "erro_tipo" key of a failure result: only the return of the invalid
\* professional-establishment pairing has it.
ErroTipo(falha) ==
    IF falha.tipo = "profissional_invalido" THEN "profissional_invalido" ELSE None

\* The comment left on the lead by a terminal failure, then the return of
\* the failure result or the HTTPException.
ComentarioFalha(p) ==
    /\ frame[p].pc = "comment_falha"
    /\ \E ok \in BOOLEAN :
         LET f == frame[p]
             c == adicionar_comentario_lead(comments, f.falha.tipo, ok)
         IN  /\ comments' = c.comments
             /\ Upd(p, [pc |-> "done", log |-> Logged(p, c.log),
                        calls |-> Issued(p, "crm.timeline.comment.add", "falha"),
                        result |-> [NoResult EXCEPT
                                      !.como = IF c.raised THEN "raise" ELSE f.falha.como,
                                      !.message = IF c.raised THEN "excecao_comentario"
                                                  ELSE f.falha.tipo,
                                      !.campos = f.campos_faltando,
                                      !.erro_tipo = ErroTipo(f.falha)]])
    /\ UNCHANGED <<procs, event, leadFields, contactFields, deals>>

-----------------------------------------------------------------------------
(* processar_agendamento_json                                              *)

\* "1. Valida estabelecimento" and its warning comment.
J_AvisoEstabelecimento(p) ==
    /\ event[p].handler = "json"
    /\ frame[p].pc = "start"
    /\ LET aviso == validar_estabelecimento(event[p].estabelecimento_codigo)
       IN  IF aviso /= None
           THEN \E ok \in BOOLEAN :
                  LET c == adicionar_comentario_lead(comments, "aviso_estabelecimento", ok)
                  IN
                  /\ comments' = c.comments
                  /\ Upd(p, [pc |-> "book_call", warning |-> aviso,
                             log |-> Logged(p, c.log),
                             estab_belle |-> event[p].estabelecimento_codigo,
                             calls |-> Issued(p, "crm.timeline.comment.add", "aviso")])
           ELSE /\ Upd(p, [pc |-> "book_call",
                           estab_belle |-> event[p].estabelecimento_codigo])
                /\ UNCHANGED comments
    /\ UNCHANGED <<procs, event, leadFields, contactFields, deals>>

\* "3. Envia para Belle Software": the agenda/gravar request.
J_BookCall(p) ==
    /\ event[p].handler = "json"
    /\ frame[p].pc = "book_call"
    /\ \E r \in AgendaResponses :
         Upd(p, [pc |-> "book_resp", resp |-> r,
                 calls |-> Issued(p, "agenda/gravar", "agendamento")])
    /\ UNCHANGED <<procs, event, leadFields, contactFields, comments, deals>>

\* The response: belle_call's exception, or "if not codigo_agendamento:
\* raise HTTPException", which the handler's "except Exception" catches.
J_BookResp(p) ==
    /\ event[p].handler = "json"
    /\ frame[p].pc = "book_resp"
    /\ LET r == frame[p].resp
           codigo_agendamento == CodigoAgendamentoJson(r)
       IN  IF r.raised
           THEN Upd(p, [pc |-> "comment_falha", resp |-> NoResp,
                        log |-> Logged(p, {"belle_api_error", "erro_http_agendamento"}),
                        falha |-> Falha("erro_http", "raise")])
           ELSE IF ~Truthy(codigo_agendamento)
           THEN Upd(p, [pc |-> "comment_falha", resp |-> NoResp,
                        log |-> Logged(p, {"erro_processar_agendamento"}),
                        falha |-> Falha("erro_processar", "raise")])
           ELSE Upd(p, [pc |-> "update_lead", resp |-> NoResp,
                        codigo_agendamento |-> codigo_agendamento])
    /\ UNCHANGED <<procs, event, leadFields, contactFields, comments, deals>>

\* "4. Atualiza campos do lead no Bitrix".
CamposAtualizarJson(dados, codigo_agendamento) ==
    (FIELD_DATA_AGENDAMENTO :> DataIso(dados.data_agendamento, dados.horario))
    @@ (FIELD_CODIGO_AGENDAMENTO :> codigo_agendamento)
    @@ (FIELD_PROFISSIONAL :> Or(dados.profissional_nome, ToString(dados.profissional_codigo)))
    @@ (FIELD_ESTABELECIMENTO :> Or(dados.estabelecimento_nome, ToString(dados.estabelecimento_codigo)))
    @@ (FIELD_PROCEDIMENTO :> dados.servicos)
    @@ (FIELD_TIPO_CONSULTA :> dados.tipo_agendamento)
    @@ (IF Truthy(dados.equipamento_nome) THEN (FIELD_EQUIPAMENTO :> dados.equipamento_nome) ELSE <<>>)
    @@ (IF Truthy(dados.agendador) THEN (LEAD_FIELD_AGENDADOR :> dados.agendador) ELSE <<>>)

J_UpdateLead(p) ==
    /\ event[p].handler = "json"
    /\ frame[p].pc = "update_lead"
    /\ \E ok \in BOOLEAN :
         LET u == atualizar_lead(leadFields,
                     CamposAtualizarJson(event[p], frame[p].codigo_agendamento), ok)
         IN
         /\ leadFields' = u.leadFields
         /\ Upd(p, [pc |-> "comment_sucesso", log |-> Logged(p, u.log),
                    calls |-> Issued(p, "crm.lead.update", "agendamento")])
    /\ UNCHANGED <<procs, event, contactFields, comments, deals>>

\* "5. Monta comentário de sucesso".
J_ComentarioSucesso(p) ==
    /\ event[p].handler = "json"
    /\ frame[p].pc = "comment_sucesso"
    /\ \E ok \in BOOLEAN :
         LET c == adicionar_comentario_lead(comments, "sucesso", ok)
         IN
         /\ comments' = c.comments
         /\ Upd(p, [pc |-> "lead_get", log |-> Logged(p, c.log),
                    calls |-> Issued(p, "crm.timeline.comment.add", "sucesso")])
    /\ UNCHANGED <<procs, event, leadFields, contactFields, deals>>

\* "Busca campos do lead original": crm.lead.get, exceptions caught.
J_LeadGet(p) ==
    /\ event[p].handler = "json"
    /\ frame[p].pc = "lead_get"
    /\ \E ok \in BOOLEAN :
         Upd(p, [pc |-> "conv_lead_get",
                 log |-> Logged(p, IF ok THEN {}
                                   ELSE {"bitrix_api_error", "erro_buscar_campos_lead"}),
                 lead_info |-> IF ok THEN [found |-> TRUE, fields |-> leadFields] ELSE NoLead,
                 calls |-> Issued(p, "crm.lead.get", "lead_info")])
    /\ UNCHANGED <<procs, event, leadFields, contactFields, comments, deals>>

-----------------------------------------------------------------------------
(* agendamentos_add_legacy                                                 *)

\* The legacy handler's failure results are returned without a comment.
RetornaErroLegacy(p, msg, r) ==
    Upd(p, Merge(r, [pc |-> "done",
                     falha |-> Falha(msg, "return"),
                     result |-> [NoResult EXCEPT !.como = "return", !.message = msg]]))

\* "Validação básica" and "1. Converte estabelecimento se necessário", up to
\* the CRM lookup of converter_estabelecimento_para_belle.
L_Validate(p) ==
    /\ event[p].handler = "legacy"
    /\ frame[p].pc = "start"
    /\ LET ev == event[p]
       IN  IF ~Truthy(ev.dtAgd) \/ ~Truthy(ev.hri)
           THEN RetornaErroLegacy(p, "dtAgd e hri obrigatorios", <<>>)
           ELSE IF Truthy(ev.codEstab)
           THEN Upd(p, [pc |-> "valida_estab", estab_belle |-> IntOf(ev.codEstab)])
           ELSE IF Truthy(ev.id_item_estab)
           THEN LET estab_bitrix == IntOf(ev.id_item_estab)
                    estab == EstabelecimentoEstatico(estab_bitrix)
                IN  IF estab /= 0
                    THEN Upd(p, [pc |-> "valida_estab", estab_bitrix |-> estab_bitrix,
                                 estab_belle |-> estab])
                    ELSE Upd(p, [pc |-> "estab_lookup", estab_bitrix |-> estab_bitrix])
           ELSE Upd(p, [pc |-> "valida_estab"])
    /\ UNCHANGED <<procs, event, leadFields, contactFields, comments, deals>>

\* "if not estab_belle: return" and "2. Verifica/cria cliente Belle".
L_Cliente(p) ==
    /\ event[p].handler = "legacy"
    /\ frame[p].pc = "valida_estab"
    /\ LET ev == event[p]
       IN  IF frame[p].estab_belle = 0
           THEN RetornaErroLegacy(p, "estabelecimento nao informado", <<>>)
           ELSE IF ~Truthy(ev.codCli) /\ Truthy(ev.contatoCPF)
           THEN Upd(p, [pc |-> "criar_cliente"])
           ELSE Upd(p, [pc |-> "book_call",
                        codigo_cliente_belle |-> IF Truthy(ev.codCli) THEN ev.codCli ELSE None])
    /\ UNCHANGED <<procs, event, leadFields, contactFields, comments, deals>>

\* criar_cliente_belle with the contact's CPF; a failure is only logged.
L_CriarCliente(p) ==
    /\ event[p].handler = "legacy"
    /\ frame[p].pc = "criar_cliente"
    /\ \E r \in ClienteResponses :
         Upd(p, [pc |-> "book_call",
                 log |-> Logged(p, IF r.raised
                                   THEN {"belle_api_error", "erro_criar_cliente_cpf"} ELSE {}),
                 codigo_cliente_belle |-> IF r.raised THEN None
                                          ELSE CodigoClienteDaRespostaLegacy(r),
                 calls |-> Issued(p, "cliente/gravar", "cliente")])
    /\ UNCHANGED <<procs, event, leadFields, contactFields, comments, deals>>

\* "4. Cria o agendamento na Belle": the agenda/gravar request.
L_BookCall(p) ==
    /\ event[p].handler = "legacy"
    /\ frame[p].pc = "book_call"
    /\ IF Truthy(frame[p].codigo_cliente_belle) /\ frame[p].codigo_cliente_belle \notin IntStrings
       THEN RetornaErroLegacy(p, "erro_agendamento_legacy",
                              [log |-> Logged(p, {"erro_agendamento_legacy"})])
       ELSE \E r \in AgendaResponses :
              Upd(p, [pc |-> "book_resp", resp |-> r,
                      calls |-> Issued(p, "agenda/gravar", "agendamento")])
    /\ UNCHANGED <<procs, event, leadFields, contactFields, comments, deals>>

SucessoLegacy(f, codigo_agendamento) ==
    [NoResult EXCEPT !.como = "return", !.success = TRUE,
                     !.message = "Agendamento criado com sucesso",
                     !.codigo_agendamento = codigo_agendamento,
                     !.codigo_cliente_belle = f.codigo_cliente_belle]

\* The response: belle_call's exception is returned as a failure; otherwise
\* the booking code is taken and the lead is updated "se for lead".
L_BookResp(p) ==
    /\ event[p].handler = "legacy"
    /\ frame[p].pc = "book_resp"
    /\ LET r == frame[p].resp
           codigo_agendamento == CodigoAgendamentoDaResposta(r)
       IN  IF r.raised
           THEN RetornaErroLegacy(p, "erro_http_legacy",
                                  [resp |-> NoResp,
                                   log |-> Logged(p, {"belle_api_error", "erro_http_legacy"})])
           ELSE IF Truthy(event[p].ID) /\ event[p].entidade = "lead"
           THEN Upd(p, [pc |-> "update_lead", resp |-> NoResp,
                        codigo_agendamento |-> codigo_agendamento])
           ELSE Upd(p, [pc |-> "done", resp |-> NoResp,
                        codigo_agendamento |-> codigo_agendamento,
                        result |-> SucessoLegacy(frame[p], codigo_agendamento)])
    /\ UNCHANGED <<procs, event, leadFields, contactFields, comments, deals>>

\* "5. Atualiza entidade no Bitrix (se for lead)": atualizar_lead.
CamposAtualizarLegacy(ev, codigo_agendamento, codigo_cliente) ==
    (FIELD_CODIGO_AGENDAMENTO :> codigo_agendamento)
    @@ (FIELD_DATA_AGENDAMENTO :> ev.dtAgd \o " " \o ev.hri \o ":00")
    @@ (IF Truthy(codigo_cliente) THEN (FIELD_CODIGO_CLIENTE_BELLE :> codigo_cliente) ELSE <<>>)

L_UpdateLead(p) ==
    /\ event[p].handler = "legacy"
    /\ frame[p].pc = "update_lead"
    /\ \E ok \in BOOLEAN :
         LET u == atualizar_lead(leadFields,
                     CamposAtualizarLegacy(event[p], frame[p].codigo_agendamento,
                                           frame[p].codigo_cliente_belle), ok)
         IN
         /\ leadFields' = u.leadFields
         /\ Upd(p, [pc |-> "comment_sucesso", log |-> Logged(p, u.log),
                    calls |-> Issued(p, "crm.lead.update", "agendamento")])
    /\ UNCHANGED <<procs, event, contactFields, comments, deals>>

\* The success comment, then the return.
L_ComentarioSucesso(p) ==
    /\ event[p].handler = "legacy"
    /\ frame[p].pc = "comment_sucesso"
    /\ \E ok \in BOOLEAN :
         LET c == adicionar_comentario_lead(comments, "sucesso_legacy", ok)
         IN
         /\ comments' = c.comments
         /\ Upd(p, [pc |-> "done", log |-> Logged(p, c.log),
                    calls |-> Issued(p, "crm.timeline.comment.add", "sucesso"),
                    result |-> SucessoLegacy(frame[p], frame[p].codigo_agendamento)])
    /\ UNCHANGED <<procs, event, leadFields, contactFields, deals>>

-----------------------------------------------------------------------------

Next ==
    \/ \E p \in procs : G_Validate(p)
    \/ \E p \in procs : EstabLookup(p)
    \/ \E p \in procs : G_AvisoEstabelecimento(p)
    \/ \E p \in procs : G_RosterCall(p)
    \/ \E p \in procs : G_RosterResp(p)
    \/ \E p \in procs : G_LeadGet(p)
    \/ \E p \in procs : G_BuscaLead(p)
    \/ \E p \in procs : G_BuscaContato(p)
    \/ \E p \in procs : G_CriarCliente(p)
    \/ \E p \in procs : G_CriarClienteResp(p)
    \/ \E p \in procs : G_AtualizaCodigo(p)
    \/ \E p \in procs : G_BookCall(p)
    \/ \E p \in procs : G_BookResp(p)
    \/ \E p \in procs : G_UpdateLead(p)
    \/ \E p \in procs : G_ComentarioSucesso(p)
    \/ \E p \in procs : Conv_LeadGet(p)
    \/ \E p \in procs : Conv_DealAdd(p)
    \/ \E p \in procs : Conv_MarkConverted(p)
    \/ \E p \in procs : G_Produto(p)
    \/ \E p \in procs : ComentarioFalha(p)
    \/ \E p \in procs : J_AvisoEstabelecimento(p)
    \/ \E p \in procs : J_BookCall(p)
    \/ \E p \in procs : J_BookResp(p)
    \/ \E p \in procs : J_UpdateLead(p)
    \/ \E p \in procs : J_ComentarioSucesso(p)
    \/ \E p \in procs : J_LeadGet(p)
    \/ \E p \in procs : L_Validate(p)
    \/ \E p \in procs : L_Cliente(p)
    \/ \E p \in procs : L_CriarCliente(p)
    \/ \E p \in procs : L_BookCall(p)
    \/ \E p \in procs : L_BookResp(p)
    \/ \E p \in procs : L_UpdateLead(p)
    \/ \E p \in procs : L_ComentarioSucesso(p)

Spec == Init /\ [][Next]_vars

-----------------------------------------------------------------------------
(* Two invocations of processar_agendamento_get for the same lead          *)

\* Two requests with the same parameters for the same lead, each served by
\* its own invocation of the handler.  The handler takes no lock and keeps
\* no record of the requests it served, so nothing orders the gateway calls
\* of two invocations: they interleave in any order, one invocation wholly
\* after the other included.  (The handler is a coroutine that calls the
\* gateways with blocking httpx calls and never awaits: inside one server
\* process a request runs to its end before the next starts, and the calls
\* of two requests interleave when two server processes serve them.)
\* Every gateway call succeeds: the roster lists the professional with an
\* agenda, cliente/gravar answers with a code and agenda/gravar answers with
\* a booking code.
PairProcs == {1, 2}

PairEvents ==
    { ev \in GetEvents :
        /\ ev.dataagendamento = "10/12/2026" /\ ev.horario = "14:30"
        /\ ev.profissional = "kelly" /\ ev.estabelecimento = "1"
        /\ ev.procedimento = "4"
        /\ ev.codigo_cliente_belle \in {None, "77"} }

RosterOk ==
    [kind |-> "roster", raised |-> FALSE,
     usuarios |-> <<[cod_usuario |-> "KELLY", nom_usuario |-> "Dra Kelly da Cas",
                     possui_agenda |-> "Sim"]>>]

ClienteOk ==
    [kind |-> "cliente", raised |-> FALSE, codigo |-> "88", codCliente |-> None,
     cod_cliente |-> None, id |-> None]

AgendaOk(codAgendamento, codigo_agendamento) ==
    [kind |-> "agenda", raised |-> FALSE, codAgendamento |-> codAgendamento,
     codigo_agendamento |-> codigo_agendamento, codigo |-> None, id |-> None, msg |-> None]

RespostasBoas == {NoResp, RosterOk, ClienteOk, AgendaOk("9001", None), AgendaOk(None, "9002")}

\* What is logged when a gateway call fails.
EventosDeFalha == {"bitrix_api_error", "belle_api_error", "falha_criar_negocio"}

\* No gateway call of invocation p has failed so far.
CallsSucceed(p) ==
    /\ frame[p].log \cap EventosDeFalha = {}
    /\ frame[p].resp \in RespostasBoas

PairInit ==
    /\ procs = PairProcs
    /\ \E ev \in PairEvents : event = [p \in procs |-> ev]
    /\ frame = [p \in procs |-> InitFrame]
    /\ \E contact \in {None, "c1"} :
         leadFields = [EmptyLead EXCEPT !["CONTACT_ID"] = contact]
    /\ contactFields \in [{FIELD_CODIGO_CLIENTE_BELLE_CONTATO} -> {None, "55"}]
    /\ leadFields["CONTACT_ID"] = None => contactFields[FIELD_CODIGO_CLIENTE_BELLE_CONTATO] = None
    /\ comments = <<>>
    /\ deals = <<>>

PairNext ==
    \/ \E p \in procs : G_Validate(p) /\ CallsSucceed(p)'
    \/ \E p \in procs : G_AvisoEstabelecimento(p) /\ CallsSucceed(p)'
    \/ \E p \in procs : G_RosterCall(p) /\ CallsSucceed(p)'
    \/ \E p \in procs : G_RosterResp(p) /\ CallsSucceed(p)'
    \/ \E p \in procs : G_LeadGet(p) /\ CallsSucceed(p)'
    \/ \E p \in procs : G_BuscaLead(p) /\ CallsSucceed(p)'
    \/ \E p \in procs : G_BuscaContato(p) /\ CallsSucceed(p)'
    \/ \E p \in procs : G_CriarCliente(p) /\ CallsSucceed(p)'
    \/ \E p \in procs : G_CriarClienteResp(p) /\ CallsSucceed(p)'
    \/ \E p \in procs : G_AtualizaCodigo(p) /\ CallsSucceed(p)'
    \/ \E p \in procs : G_BookCall(p) /\ CallsSucceed(p)'
    \/ \E p \in procs : G_BookResp(p) /\ CallsSucceed(p)'
    \/ \E p \in procs : G_UpdateLead(p) /\ CallsSucceed(p)'
    \/ \E p \in procs : G_ComentarioSucesso(p) /\ CallsSucceed(p)'
    \/ \E p \in procs : Conv_LeadGet(p) /\ CallsSucceed(p)'
    \/ \E p \in procs : Conv_DealAdd(p) /\ CallsSucceed(p)'
    \/ \E p \in procs : Conv_MarkConverted(p) /\ CallsSucceed(p)'
    \/ \E p \in procs : G_Produto(p) /\ CallsSucceed(p)'

PairSpec == PairInit /\ [][PairNext]_vars

-----------------------------------------------------------------------------
(* Two invocations, with any outcome of the promotion and of the line item *)

\* The two invocations of PairInit, with every gateway call succeeding up to
\* the success comment; the calls of the promotion (crm.lead.get,
\* crm.deal.add, the status update) and the line-item call succeed or fail.
ItemInit == PairInit

ItemNext ==
    \/ \E p \in procs : G_Validate(p) /\ CallsSucceed(p)'
    \/ \E p \in procs : G_AvisoEstabelecimento(p) /\ CallsSucceed(p)'
    \/ \E p \in procs : G_RosterCall(p) /\ CallsSucceed(p)'
    \/ \E p \in procs : G_RosterResp(p) /\ CallsSucceed(p)'
    \/ \E p \in procs : G_LeadGet(p) /\ CallsSucceed(p)'
    \/ \E p \in procs : G_BuscaLead(p) /\ CallsSucceed(p)'
    \/ \E p \in procs : G_BuscaContato(p) /\ CallsSucceed(p)'
    \/ \E p \in procs : G_CriarCliente(p) /\ CallsSucceed(p)'
    \/ \E p \in procs : G_CriarClienteResp(p) /\ CallsSucceed(p)'
    \/ \E p \in procs : G_AtualizaCodigo(p) /\ CallsSucceed(p)'
    \/ \E p \in procs : G_BookCall(p) /\ CallsSucceed(p)'
    \/ \E p \in procs : G_BookResp(p) /\ CallsSucceed(p)'
    \/ \E p \in procs : G_UpdateLead(p) /\ CallsSucceed(p)'
    \/ \E p \in procs : G_ComentarioSucesso(p) /\ CallsSucceed(p)'
    \/ \E p \in procs : Conv_LeadGet(p)
    \/ \E p \in procs : Conv_DealAdd(p)
    \/ \E p \in procs : Conv_MarkConverted(p)
    \/ \E p \in procs : G_Produto(p)

ItemSpec == ItemInit /\ [][ItemNext]_vars

-----------------------------------------------------------------------------
(* parse_bitrix_servico                                                    *)

\* The procedure token and the query parameters are texts, modelled as
\* sequences of characters so that the search, the split and the strip of
\* the source are computed.  NoText is Python's None where a text may stand:
\* it differs from every text, whose elements are single characters.
NoText == <<"None">>

Digits == {"0", "1", "2", "3", "4", "5", "6", "7", "8", "9"}

DigitVal(c) ==
    CASE c = "0" -> 0 [] c = "1" -> 1 [] c = "2" -> 2 [] c = "3" -> 3 [] c = "4" -> 4
      [] c = "5" -> 5 [] c = "6" -> 6 [] c = "7" -> 7 [] c = "8" -> 8 [] c = "9" -> 9

\* str.isspace() of one character.
IsSpace(c) == c \in {" ", "\t", "\n"}

\* str.lower() of one character (re.IGNORECASE compares case-folded).
Lower(c) ==
    CASE c = "S" -> "s" [] c = "E" -> "e" [] c = "R" -> "r" [] c = "V" -> "v"
      [] c = "I" -> "i" [] c = "C" -> "c" [] c = "O" -> "o" [] c = "N" -> "n"
      [] c = "M" -> "m" [] OTHER -> c

RECURSIVE lstrip(_)
lstrip(s) == IF s /= <<>> /\ IsSpace(Head(s)) THEN lstrip(Tail(s)) ELSE s

RECURSIVE rstrip(_)
rstrip(s) ==
    IF s /= <<>> /\ IsSpace(s[Len(s)]) THEN rstrip(SubSeq(s, 1, Len(s) - 1)) ELSE s

\* str.strip().
strip(s) == rstrip(lstrip(s))

\* str.isdigit().
isdigit(s) == s /= <<>> /\ \A i \in 1..Len(s) : s[i] \in Digits

\* The literal parts of the pattern servico\[(\d+)\]\[nome\]=(.+) and of the
\* key servico[<code>][tempo].
PatServico == <<"s", "e", "r", "v", "i", "c", "o", "[">>
PatNome == <<"]", "[", "n", "o", "m", "e", "]", "=">>
PatTempo == <<"]", "[", "t", "e", "m", "p", "o", "]">>

\* The literal lit stands in t at position i, letter case ignored.
LiteralAt(t, i, lit) ==
    /\ i + Len(lit) - 1 <= Len(t)
    /\ \A k \in 1..Len(lit) : Lower(t[i + k - 1]) = lit[k]

\* The end of the longest run of digits of t that starts at i (i - 1 if
\* there is none): the greedy \d+.
RECURSIVE DigitsEnd(_, _)
DigitsEnd(t, i) ==
    IF i <= Len(t) /\ t[i] \in Digits THEN DigitsEnd(t, i + 1) ELSE i - 1

\* The end of the longest run of characters other than a line break that
\* starts at i (i - 1 if there is none): the greedy .+ at the pattern's end.
RECURSIVE DotEnd(_, _)
DotEnd(t, i) ==
    IF i <= Len(t) /\ t[i] /= "\n" THEN DotEnd(t, i + 1) ELSE i - 1

\* The match of the pattern that starts at position i of t, or no match.
MatchAt(t, i) ==
    LET d1 == i + Len(PatServico)
        d2 == DigitsEnd(t, d1)
        n1 == d2 + 1 + Len(PatNome)
        n2 == DotEnd(t, n1)
    IN  IF /\ LiteralAt(t, i, PatServico)
           /\ d2 >= d1
           /\ LiteralAt(t, d2 + 1, PatNome)
           /\ n2 >= n1
        THEN [found |-> TRUE, group1 |-> SubSeq(t, d1, d2), group2 |-> SubSeq(t, n1, n2)]
        ELSE [found |-> FALSE, group1 |-> <<>>, group2 |-> <<>>]

\* re.search: the match at the leftmost position that has one.
RECURSIVE SearchFrom(_, _)
SearchFrom(t, i) ==
    IF i > Len(t) THEN MatchAt(t, i)
    ELSE IF MatchAt(t, i).found THEN MatchAt(t, i)
    ELSE SearchFrom(t, i + 1)

re_search(t) == SearchFrom(t, 1)

\* str.split(","): the pieces between the commas, in order.
RECURSIVE split(_)
split(s) ==
    IF \E i \in 1..Len(s) : s[i] = ","
    THEN LET i == CHOOSE j \in 1..Len(s) :
                      s[j] = "," /\ \A k \in 1..(j - 1) : s[k] /= ","
         IN  <<SubSeq(s, 1, i - 1)>> \o split(SubSeq(s, i + 1, Len(s)))
    ELSE <<s>>

\* [s.strip() for s in procedimento.split(",") if s.strip()]
RECURSIVE StrippedNonEmpty(_)
StrippedNonEmpty(pieces) ==
    IF pieces = <<>> THEN <<>>
    ELSE (IF strip(Head(pieces)) /= <<>> THEN <<strip(Head(pieces))>> ELSE <<>>)
         \o StrippedNonEmpty(Tail(pieces))

\* The value of a run of digits.
RECURSIVE DigitsValue(_)
DigitsValue(s) ==
    IF s = <<>> THEN 0 ELSE 10 * DigitsValue(SubSeq(s, 1, Len(s) - 1)) + DigitVal(s[Len(s)])

\* int(text): surrounding whitespace and one sign are accepted, then digits
\* only; anything else raises ValueError.
int(v) ==
    LET s == strip(v)
        signed == s /= <<>> /\ Head(s) \in {"+", "-"}
        body == IF signed THEN Tail(s) ELSE s
    IN  IF isdigit(body)
        THEN [raised |-> FALSE,
              valor |-> IF signed /\ Head(s) = "-" THEN 0 - DigitsValue(body)
                        ELSE DigitsValue(body)]
        ELSE [raised |-> TRUE, valor |-> 0]

\* f"servico[{codServico}][tempo]"
tempo_key(codServico) == PatServico \o codServico \o PatTempo

TEMPO_DEFAULT == 30

\* "Busca o tempo nos query_params" without the try/except around int().
TempoSemTry(codServico, query_params) ==
    IF tempo_key(codServico) \in DOMAIN query_params
    THEN LET n == int(query_params[tempo_key(codServico)])
         IN  [raised |-> n.raised, tempo |-> IF n.raised THEN TEMPO_DEFAULT ELSE n.valor]
    ELSE [raised |-> FALSE, tempo |-> TEMPO_DEFAULT]

\* "Busca o tempo nos query_params" falling back, when the code has no
\* duration parameter, to a duration parameter of another code.
TempoDeOutraChave(codServico, query_params) ==
    IF DOMAIN query_params /= {}
    THEN LET k == IF tempo_key(codServico) \in DOMAIN query_params
                  THEN tempo_key(codServico)
                  ELSE CHOOSE x \in DOMAIN query_params : TRUE
             n == int(query_params[k])
         IN  [raised |-> FALSE, tempo |-> IF n.raised THEN TEMPO_DEFAULT ELSE n.valor]
    ELSE [raised |-> FALSE, tempo |-> TEMPO_DEFAULT]

\* "Busca o tempo nos query_params" read for a missing or unusable value as
\* no duration at all.
TempoSemDefault(codServico, query_params) ==
    IF tempo_key(codServico) \in DOMAIN query_params
    THEN LET n == int(query_params[tempo_key(codServico)])
         IN  [raised |-> FALSE, tempo |-> IF n.raised THEN 0 ELSE n.valor]
    ELSE [raised |-> FALSE, tempo |-> 0]

\* "Busca o tempo nos query_params": the value under servico[<code>][tempo]
\* as an integer; the default stays when the key is absent or int() raises
\* (the ValueError is caught).
Tempo(codServico, query_params) ==
    IF tempo_key(codServico) \in DOMAIN query_params
    THEN LET n == int(query_params[tempo_key(codServico)])
         IN  [raised |-> FALSE, tempo |-> IF n.raised THEN TEMPO_DEFAULT ELSE n.valor]
    ELSE [raised |-> FALSE, tempo |-> TEMPO_DEFAULT]

\* The simple format taking the last element of the list.
PrimeiroUltimo(servicos) == servicos[Len(servicos)]

\* servicos[0]
Primeiro(servicos) == servicos[1]

\* parse_bitrix_servico: raised is an exception leaving the function, value
\* the dict it returns.
parse_bitrix_servico(procedimento, query_params) ==
    LET match == re_search(procedimento)
        servicos == StrippedNonEmpty(split(procedimento))
    IN  IF procedimento = <<>>
        THEN [raised |-> FALSE,
              value |-> [codServico |-> NoText, nomeServico |-> NoText,
                         tempo |-> TEMPO_DEFAULT]]
        ELSE IF match.found
        THEN LET t == Tempo(match.group1, query_params)
             IN  [raised |-> t.raised,
                  value |-> [codServico |-> match.group1,
                             nomeServico |-> strip(match.group2),
                             tempo |-> t.tempo]]
        ELSE IF servicos /= <<>>
        THEN [raised |-> FALSE,
              value |-> [codServico |-> Primeiro(servicos),
                         nomeServico |-> Primeiro(servicos),
                         tempo |-> TEMPO_DEFAULT]]
        ELSE [raised |-> FALSE,
              value |-> [codServico |-> NoText, nomeServico |-> NoText,
                         tempo |-> TEMPO_DEFAULT]]

-----------------------------------------------------------------------------
(* gerar_cpf_valido and the request of criar_cliente_belle                 *)

DigitChar(d) ==
    CASE d = 0 -> "0" [] d = 1 -> "1" [] d = 2 -> "2" [] d = 3 -> "3" [] d = 4 -> "4"
      [] d = 5 -> "5" [] d = 6 -> "6" [] d = 7 -> "7" [] d = 8 -> "8" [] d = 9 -> "9"

\* str(n) of an integer.
RECURSIVE str(_)
str(n) ==
    IF n < 0 THEN <<"-">> \o str(0 - n)
    ELSE IF n < 10 THEN <<DigitChar(n)>>
    ELSE str(n \div 10) \o <<DigitChar(n % 10)>>

\* str.zfill(width): zeros are put after the sign, up to the width.
RECURSIVE zfill(_, _)
zfill(s, width) ==
    IF Len(s) >= width THEN s
    ELSE IF s /= <<>> /\ Head(s) \in {"+", "-"}
    THEN zfill(<<Head(s), "0">> \o Tail(s), width)
    ELSE zfill(<<"0">> \o s, width)

\* s[-n:]
LastChars(s, n) == IF Len(s) <= n THEN s ELSE SubSeq(s, Len(s) - n + 1, Len(s))

\* sum(int(s[i]) * (peso - i) for i in range(len(s))), i counted from 0.
RECURSIVE SomaPonderada(_, _)
SomaPonderada(s, peso) ==
    IF s = <<>> THEN 0
    ELSE DigitVal(Head(s)) * peso + SomaPonderada(Tail(s), peso - 1)

\* A check digit computed as 11 - resto in every case.
DigitoSemCasoMenorQue2(resto) == 11 - resto

\* "0 if resto < 2 else 11 - resto"
DigitoVerificador(resto) == IF resto < 2 THEN 0 ELSE 11 - resto

\* gerar_cpf_valido: raised is the ValueError of int() on a character of the
\* base that is no digit (the sign of a negative seed).
gerar_cpf_valido(seed) ==
    LET base == LastChars(zfill(str(seed), 9), 9)
    IN  IF ~isdigit(base) THEN [raised |-> TRUE, value |-> <<>>]
        ELSE LET d1 == DigitoVerificador(SomaPonderada(base, 10) % 11)
                 base_com_d1 == base \o str(d1)
                 d2 == DigitoVerificador(SomaPonderada(base_com_d1, 11) % 11)
             IN  [raised |-> FALSE, value |-> base \o str(d1) \o str(d2)]

\* "".join(c for c in s if c.isdigit())
RECURSIVE SoDigitos(_)
SoDigitos(s) ==
    IF s = <<>> THEN <<>>
    ELSE (IF Head(s) \in Digits THEN <<Head(s)>> ELSE <<>>) \o SoDigitos(Tail(s))

\* Python truthiness of a text-or-None value.
TextTruthy(s) == s /= NoText /\ s /= <<>>

SEED_DEFAULT == 999999999

\* "CPF é obrigatório na API Belle": the cleaned document when it has 11
\* digits, else one generated from "lead_id or 999999999" (lead_id 0 stands
\* for an absent lead_id as well).
CpfDoPayload(cpf, lead_id) ==
    LET cpf_limpo == SoDigitos(cpf)
    IN  IF TextTruthy(cpf) /\ Len(cpf_limpo) = 11
        THEN [raised |-> FALSE, value |-> cpf_limpo]
        ELSE gerar_cpf_valido(IF lead_id /= 0 THEN lead_id ELSE SEED_DEFAULT)

\* The telephone of the request: celular and ddiCelular when the telephone
\* has ten digits or more.
CelularDoPayload(telefone) ==
    IF TextTruthy(telefone) /\ Len(SoDigitos(telefone)) >= 10
    THEN [celular |-> SoDigitos(telefone), ddiCelular |-> "+55"]
    ELSE <<>>

\* criar_cliente_belle generating the document from the digits of the
\* telephone when there are any, instead of from the lead id.
criar_cliente_belle_semente_telefone(nome, telefone, codEstab, cpf, email, lead_id) ==
    LET doc == CpfDoPayload(cpf, IF SoDigitos(telefone) /= <<>>
                                 THEN DigitsValue(LastChars(SoDigitos(telefone), 4))
                                 ELSE lead_id)
    IN  [raised |-> doc.raised,
         payload |-> Merge(Merge([nome |-> nome, codEstab |-> codEstab, cpf |-> doc.value],
                                 CelularDoPayload(telefone)),
                           IF Truthy(email) THEN [email |-> email] ELSE <<>>)]

\* criar_cliente_belle up to the request it sends to cliente/gravar: raised
\* is an exception before the request, payload the request's body.
criar_cliente_belle(nome, telefone, codEstab, cpf, email, lead_id) ==
    LET doc == CpfDoPayload(cpf, lead_id)
    IN  [raised |-> doc.raised,
         payload |-> Merge(Merge([nome |-> nome, codEstab |-> codEstab, cpf |-> doc.value],
                                 CelularDoPayload(telefone)),
                           IF Truthy(email) THEN [email |-> email] ELSE <<>>)]

-----------------------------------------------------------------------------
(* The translation tables and the pipeline router, applied on their own    *)

\* One application of a function of the source: event[p] holds the
\* function's name and its arguments, frame[p] what it returned, what it
\* logged as a warning and the gateway calls it made.
TableFrame ==
    [pc |-> "call", ret |-> None, log |-> {}, calls |-> <<>>,
     estab_bitrix |-> 0, estab_belle |-> 0]

\* How many times in a row converter_estabelecimento_para_belle is applied,
\* each time to what it returned before.
MaxApplications == 2

PipelineArgs ==
    DOMAIN ESTABELECIMENTO_TO_PIPELINE
    \cup {None, "", " 5 ", "0", "3", "238", "242", "999", "abc"}

PipelineCalls == [handler : {"tables"}, fn : {"obter_pipeline_por_estabelecimento"},
                  arg : PipelineArgs]

\* Field ids with and without an option table, and option ids in one of the
\* tables ("136" origem, "3720" campanha, "1642" tipo de atendimento, "3732"
\* tipo de paciente), in none ("9999", "Consulta") and empty.
EnumFieldArgs == ENUM_FIELDS \cup {LEAD_FIELD_AGENDADOR, LEAD_FIELD_SEGMENTO, LEAD_FIELD_EQUIPAMENTO}

EnumValueArgs == {None, "", "136", "3720", "1642", "3732", "9999", "Consulta"}

EnumCalls == [handler : {"tables"}, fn : {"converter_enum_lead_para_deal"},
              field : EnumFieldArgs, arg : EnumValueArgs]

\* Codes of the scheduling system with and without an entry in the
\* translation table of their class.
ProfissionalArgs == {"39340", " 39340", "KELLY", "kelly", "999", "", None}

EstabelecimentoArgs == {"1", "5", " 5 ", "14", "238", "999", "abc", None}

ProcedimentoArgs == {"CONSULTA", "Consulta", "servico[4][nome]=Consulta", " botox ", "4", "", None}

TranslateCalls ==
    [handler : {"tables"}, fn : {"converter_belle_para_bitrix_profissional"},
     arg : ProfissionalArgs]
    \cup [handler : {"tables"}, fn : {"converter_belle_para_bitrix_estabelecimento"},
          arg : EstabelecimentoArgs]
    \cup [handler : {"tables"}, fn : {"converter_procedimento_para_bitrix"},
          arg : ProcedimentoArgs]

\* Establishment ids: the canonical codes, list element ids of the static
\* table, and ids only the CRM lookup can resolve. orig is the id of the first
\* application, arg the id of the current one, n the number of the application.
ParaBelleArgs == BELLE_CODES_VALIDOS \cup {0, 238, 242, 8510, 999}

ParaBelleCalls ==
    { [handler |-> "tables", fn |-> "converter_estabelecimento_para_belle",
       orig |-> x, arg |-> x, n |-> 1] : x \in ParaBelleArgs }

\* Leads for converter_lead_para_negocio: the lead that could not be read,
\* a lead with no value in any field and a lead with a value in every field
\* but the segment, each with and without a professional, an agendador (a
\* field outside ENUM_FIELDS whose value "136" is a key of the origem table)
\* and an origem inside and outside its table.
LeadCheio ==
    [EmptyLead EXCEPT
        !["CONTACT_ID"] = "c1", !["TITLE"] = "Maria", !["ASSIGNED_BY_ID"] = "7",
        !["UTM_SOURCE"] = "", ![LEAD_FIELD_DATA_AGENDAMENTO] = "2026-01-05T09:00:00-04:00",
        ![LEAD_FIELD_ESTABELECIMENTO] = "1", ![LEAD_FIELD_CODIGO_AGENDAMENTO] = "8000",
        ![LEAD_FIELD_PROCEDIMENTO] = "55", ![LEAD_FIELD_PROCEDIMENTO_NOME] = "BOTOX",
        ![LEAD_FIELD_CODIGO_CLIENTE_BELLE] = "66", ![LEAD_FIELD_CAMPANHA] = "3720",
        ![LEAD_FIELD_TIPO_ATENDIMENTO] = "718", ![LEAD_FIELD_TIPO_PACIENTE] = "3732",
        ![LEAD_FIELD_EQUIPAMENTO] = ""]

LeadSamples ==
    {NoLead}
    \cup { [found |-> TRUE,
            fields |-> [base EXCEPT ![LEAD_FIELD_PROFISSIONAL] = prof,
                                    ![LEAD_FIELD_AGENDADOR] = agendador,
                                    ![LEAD_FIELD_ORIGEM] = origem]] :
             base \in {EmptyLead, LeadCheio}, prof \in {None, "39898"},
             agendador \in {None, "136"}, origem \in {"", "136", "9999"} }

\* dados_agendamento: the three codes with an entry in their table, without
\* one and absent; the other keys absent, all supplied, or supplied with a
\* date that does not parse, a visit type by name and the lead's procedure.
DadosResto ==
    { SemDados,
      [SemDados EXCEPT !["servico_nome"] = "CONSULTA",
                       !["data_agendamento"] = "10/12/2026 14:30:00",
                       !["tipo_consulta"] = "Consulta",
                       !["tipo_atendimento_direto"] = "1634",
                       !["equipamento"] = "laser",
                       !["codigo_cliente_belle"] = "77",
                       !["origem"] = "136", !["campanha"] = "9999",
                       !["tipo_paciente"] = "3734", !["agendador"] = "ana",
                       !["segmento"] = "5"],
      [SemDados EXCEPT !["servico_nome"] = "4",
                       !["data_agendamento"] = "amanha",
                       !["tipo_consulta"] = "1642",
                       !["codigo_cliente_belle"] = "77",
                       !["segmento"] = "999",
                       !["procedimento_lead"] = "55"] }

DadosSamples ==
    { [resto EXCEPT !["profissional"] = prof, !["estabelecimento"] = estab,
                    !["procedimento"] = proc] :
        resto \in DadosResto, prof \in {None, "39340", "999"},
        estab \in {None, "5", "242"}, proc \in {None, "CONSULTA", "4"} }

PromocaoCalls ==
    [handler : {"tables"}, fn : {"converter_lead_para_negocio"}, lead_id : LeadIds,
     lead_data : LeadSamples, codigo_agendamento : {None, "9001"}, dados : DadosSamples]

\* Texts of at most n characters of the alphabet A.
Texts(A, n) == UNION { [1..k -> A] : k \in 0..n }

\* Procedure tokens for parse_bitrix_servico.  Structured: servico[c][nome]=n
\* with a numeric code c and a name n of one or two characters (letters,
\* blanks, a comma), also with no name at all and in capitals.  Bare: every
\* text of at most MaxToken characters over a digit, a letter, the comma and
\* the blank, and longer lists; a list whose second element is structured.
MaxToken == 3

ServicoCodes == {<<"4">>, <<"7">>, <<"4", "7">>}

ServicoNames == Texts({"A", "B", " ", ","}, 2) \ {<<>>}

StructuredTokens ==
    { PatServico \o c \o PatNome \o n : c \in ServicoCodes, n \in ServicoNames }

BareTokens ==
    Texts({"4", "A", ",", " "}, MaxToken)
    \cup { <<"4", "7", ",", " ", "A">>, <<" ", ",", " ", "A", "4", " ", ",", "7">>,
            <<"A", " ", "B", ",", "4">> }

OtherTokens ==
    { PatServico \o c \o PatNome : c \in ServicoCodes }
    \cup { <<"S", "E", "R", "V", "I", "C", "O", "[">> \o c
              \o <<"]", "[", "N", "O", "M", "E", "]", "=">> \o <<"A">> : c \in ServicoCodes }
    \cup { <<"4", ",">> \o PatServico \o <<"7">> \o PatNome \o <<"B">>,
            PatServico \o <<"A">> \o PatNome \o <<"B">> }

\* Query parameters: for each of two codes no duration parameter, or one
\* that holds an integer (plain, padded with a blank, negative) or does not
\* (a word, a decimal fraction, nothing).
TempoValues ==
    { <<"6", "0">>, <<" ", "6", "0">>, <<"-", "5">>, <<"x">>, <<"6", ".", "5">>, <<>> }

QueryParams ==
    UNION { [K -> TempoValues] : K \in SUBSET { tempo_key(<<"4">>), tempo_key(<<"7">>) } }

ParseCalls ==
    [handler : {"tables"}, fn : {"parse_bitrix_servico"},
     procedimento : StructuredTokens \cup BareTokens \cup OtherTokens,
     query_params : QueryParams]

\* Requests of criar_cliente_belle: lead ids whose check digits take every
\* branch (104 and 2147483647: first remainder 1; 107 and 108: second
\* remainder 1 and 0), two ids with the same last nine digits (101 and
\* 1000000101), no lead id (0) and a negative one; no document, a document of
\* three digits and a formatted document of eleven.
ClienteLeadIds == {0, 101, 104, 107, 108, 1000000101, 2147483647, -5}

CpfTexts ==
    { NoText, <<"1", "2", "3">>,
      <<"1", "2", "3", ".", "4", "5", "6", ".", "7", "8", "9", "-", "0", "9">> }

TelefoneTexts == { <<>>, <<"6", "5", " ", "9", "9", "9", "9", "9", "-", "0", "0", "0", "7">> }

ClienteCalls ==
    [handler : {"tables"}, fn : {"criar_cliente_belle"},
     nome : {"Ana", "Bia"}, telefone : TelefoneTexts, codEstab : {1}, cpf : CpfTexts,
     email : {None}, lead_id : ClienteLeadIds]

TableCalls ==
    PipelineCalls \cup EnumCalls \cup TranslateCalls \cup ParaBelleCalls \cup PromocaoCalls
    \cup ParseCalls \cup ClienteCalls

TablesInit ==
    /\ procs = {1}
    /\ event \in [procs -> TableCalls]
    /\ frame = [p \in procs |-> TableFrame]
    /\ leadFields = EmptyLead
    /\ contactFields = [k \in {FIELD_CODIGO_CLIENTE_BELLE_CONTATO} |-> None]
    /\ comments = <<>>
    /\ deals = <<>>

Returns(p, ret, log) ==
    /\ frame' = [frame EXCEPT ![p] = [@ EXCEPT !.pc = "ret", !.ret = ret, !.log = log]]
    /\ UNCHANGED <<procs, event, leadFields, contactFields, comments, deals>>

T_Pipeline(p) ==
    /\ event[p].fn = "obter_pipeline_por_estabelecimento"
    /\ frame[p].pc = "call"
    /\ Returns(p, obter_pipeline_por_estabelecimento(event[p].arg),
               obter_pipeline_log(event[p].arg))

T_Enum(p) ==
    /\ event[p].fn = "converter_enum_lead_para_deal"
    /\ frame[p].pc = "call"
    /\ Returns(p, converter_enum_lead_para_deal(event[p].field, event[p].arg),
               converter_enum_log(event[p].field, event[p].arg))

T_Profissional(p) ==
    /\ event[p].fn = "converter_belle_para_bitrix_profissional"
    /\ frame[p].pc = "call"
    /\ Returns(p, converter_belle_para_bitrix_profissional(event[p].arg),
               converter_log("profissional", event[p].arg))

T_Estabelecimento(p) ==
    /\ event[p].fn = "converter_belle_para_bitrix_estabelecimento"
    /\ frame[p].pc = "call"
    /\ Returns(p, converter_belle_para_bitrix_estabelecimento(event[p].arg),
               converter_log("estabelecimento", event[p].arg))

T_Procedimento(p) ==
    /\ event[p].fn = "converter_procedimento_para_bitrix"
    /\ frame[p].pc = "call"
    /\ Returns(p, converter_procedimento_para_bitrix(event[p].arg),
               converter_log("procedimento", event[p].arg))

\* converter_estabelecimento_para_belle: the two tests on the tables return
\* at once; otherwise the CRM lookup follows (EstabLookup).
T_ParaBelle(p) ==
    /\ event[p].fn = "converter_estabelecimento_para_belle"
    /\ frame[p].pc = "call"
    /\ LET estab == EstabelecimentoEstatico(event[p].arg)
       IN  IF estab /= 0
           THEN Upd(p, [pc |-> "ret", ret |-> estab, estab_bitrix |-> event[p].arg,
                        estab_belle |-> estab])
           ELSE Upd(p, [pc |-> "estab_lookup", estab_bitrix |-> event[p].arg])
    /\ UNCHANGED <<procs, event, leadFields, contactFields, comments, deals>>

\* The return of converter_estabelecimento_para_belle after the lookup.
T_ParaBelleRet(p) ==
    /\ event[p].handler = "tables"
    /\ frame[p].pc = "valida_estab"
    /\ Upd(p, [pc |-> "ret", ret |-> frame[p].estab_belle])
    /\ UNCHANGED <<procs, event, leadFields, contactFields, comments, deals>>

\* The function applied again, to what it returned.
T_ParaBelleAgain(p) ==
    /\ event[p].fn = "converter_estabelecimento_para_belle"
    /\ frame[p].pc = "ret"
    /\ event[p].n < MaxApplications
    /\ event' = [event EXCEPT ![p] = [@ EXCEPT !.arg = frame[p].ret, !.n = @ + 1]]
    /\ Upd(p, [pc |-> "call"])
    /\ UNCHANGED <<procs, leadFields, contactFields, comments, deals>>

\* converter_lead_para_negocio up to the fields it sends to crm.deal.add.
T_Promocao(p) ==
    /\ event[p].fn = "converter_lead_para_negocio"
    /\ frame[p].pc = "call"
    /\ Returns(p, DealFields(event[p].lead_id, event[p].lead_data,
                             event[p].codigo_agendamento, event[p].dados),
               DealFieldsLog(event[p].lead_data, event[p].dados))

\* parse_bitrix_servico applied to a token and the query parameters.
T_Parse(p) ==
    /\ event[p].fn = "parse_bitrix_servico"
    /\ frame[p].pc = "call"
    /\ LET r == parse_bitrix_servico(event[p].procedimento, event[p].query_params)
       IN  IF r.raised
           THEN Upd(p, [pc |-> "raise"])
           ELSE Upd(p, [pc |-> "ret", ret |-> r.value])
    /\ UNCHANGED <<procs, event, leadFields, contactFields, comments, deals>>

\* criar_cliente_belle applied: the request it sends is recorded with the
\* arguments of the call.
T_CriarCliente(p) ==
    /\ event[p].fn = "criar_cliente_belle"
    /\ frame[p].pc = "call"
    /\ LET ev == event[p]
           r == criar_cliente_belle(ev.nome, ev.telefone, ev.codEstab, ev.cpf, ev.email,
                                    ev.lead_id)
       IN  IF r.raised
           THEN Upd(p, [pc |-> "raise"])
           ELSE Upd(p, [pc |-> "ret", ret |-> r.payload,
                        calls |-> Append(frame[p].calls,
                                         [method |-> "cliente/gravar", stage |-> "cliente",
                                          args |-> ev, payload |-> r.payload])])
    /\ UNCHANGED <<procs, event, leadFields, contactFields, comments, deals>>

\* A second call of criar_cliente_belle after the first, with any arguments.
T_CriarClienteAgain(p) ==
    /\ event[p].fn = "criar_cliente_belle"
    /\ frame[p].pc = "ret"
    /\ Len(frame[p].calls) = 1
    /\ \E ev \in ClienteCalls : event' = [event EXCEPT ![p] = ev]
    /\ Upd(p, [pc |-> "call"])
    /\ UNCHANGED <<procs, leadFields, contactFields, comments, deals>>

TablesNext ==
    \/ \E p \in procs : T_Pipeline(p)
    \/ \E p \in procs : T_Promocao(p)
    \/ \E p \in procs : T_ParaBelle(p)
    \/ \E p \in procs : EstabLookup(p)
    \/ \E p \in procs : T_ParaBelleRet(p)
    \/ \E p \in procs : T_ParaBelleAgain(p)
    \/ \E p \in procs : T_Enum(p)
    \/ \E p \in procs : T_Profissional(p)
    \/ \E p \in procs : T_Estabelecimento(p)
    \/ \E p \in procs : T_Procedimento(p)
    \/ \E p \in procs : T_Parse(p)
    \/ \E p \in procs : T_CriarCliente(p)
    \/ \E p \in procs : T_CriarClienteAgain(p)

TablesSpec == TablesInit /\ [][TablesNext]_vars

-----------------------------------------------------------------------------
(* Properties                                                              *)

IsGet(p) == event[p].handler = "get"

Done(p) == frame[p].pc = "done"

Succeeded(p) ==
    /\ Done(p)
    /\ frame[p].result.como = "return"
    /\ frame[p].result.success

Failed(p) ==
    /\ Done(p)
    /\ ~frame[p].result.success
    /\ frame[p].result.como \in {"return", "raise"}

Did(p, m, s) == Call(m, s) \in Range(frame[p].calls)

Methods(p) == {c.method : c \in Range(frame[p].calls)}

\* C1: in processar_agendamento_get, once the booking stage has produced a
\* booking code, no failure path is ever entered, and the invocation ends
\* with success = true and that booking code, whatever the outcome of the
\* lead update, the success comment, the promotion to a deal, the marking
\* of the lead as converted and the line item.
C1_BookingSuccessNeverDowngraded ==
    \A p \in procs :
        IsGet(p) /\ frame[p].codigo_agendamento /= None =>
            /\ frame[p].pc /= "comment_falha"
            /\ frame[p].falha = NoFalha
            /\ Done(p) =>
                  /\ Succeeded(p)
                  /\ frame[p].result.codigo_agendamento = frame[p].codigo_agendamento

\* C1 witness: success with booking code 9001 although the lead update, the
\* success comment, the marking as converted and the line item all failed.
C1_Witness ==
    \E p \in procs :
        /\ IsGet(p) /\ Succeeded(p)
        /\ frame[p].result.codigo_agendamento = "9001"
        /\ {"erro_atualizar_lead", "erro_adicionar_comentario",
            "erro_marcar_lead_convertido", "excecao_adicionar_produto_deal"}
              \subseteq frame[p].log
        /\ leadFields[FIELD_CODIGO_AGENDAMENTO] = None
        /\ "sucesso" \notin Range(comments)
        /\ Len(deals) = 1 /\ deals[1].rows = <<>>

\* A booking response of a transport call that succeeded, with no booking
\* code under any key.
SemCodigo(r) ==
    /\ r.kind = "agenda" /\ ~r.raised
    /\ r.codAgendamento = None /\ r.codigo_agendamento = None
    /\ r.codigo = None /\ r.id = None

\* C2: in the three handlers, a booking response with an error message and
\* no booking code puts the invocation on a failure path, and a failure path
\* never ends with success = true.
C2_ErrorResponseNeverSucceeds ==
    /\ [](\A p \in procs : frame[p].falha /= NoFalha => ~frame[p].result.success)
    /\ [][\A p \in procs :
            /\ frame[p].pc = "book_resp"
            /\ SemCodigo(frame[p].resp) /\ frame[p].resp.msg /= None
            /\ frame'[p] /= frame[p]
            => frame'[p].falha /= NoFalha]_vars

\* The calls that follow a booking in processar_agendamento_get.
AposAgendamento ==
    {Call("crm.lead.update", "agendamento"), Call("crm.timeline.comment.add", "sucesso"),
     Call("crm.deal.add", "conversao"), Call("crm.lead.update", "convertido"),
     Call("crm.deal.productrows.set", "produto")}

\* C3: in processar_agendamento_get, a booking response without a booking
\* code, with or without an error message, puts the invocation on a failure
\* path; a failure path never returns success = true and issues no lead
\* update, success comment, promotion or line item.
C3_NoBookingCodeIsTerminal ==
    /\ [](\A p \in procs :
            IsGet(p) /\ frame[p].falha /= NoFalha =>
                /\ ~frame[p].result.success
                /\ Range(frame[p].calls) \cap AposAgendamento = {})
    /\ [][\A p \in procs :
            /\ IsGet(p)
            /\ frame[p].pc = "book_resp"
            /\ SemCodigo(frame[p].resp)
            /\ frame'[p] /= frame[p]
            => frame'[p].falha /= NoFalha]_vars

\* The required fields of processar_agendamento_get and the text that names
\* each in the failure message.
RequiredLabel ==
    [dataagendamento |-> LabelData, horario |-> LabelHorario,
     profissional |-> LabelProfissional, estabelecimento |-> LabelEstabelecimento,
     procedimento |-> LabelProcedimento]

MissingLabels(ev) == {RequiredLabel[k] : k \in {k \in DOMAIN RequiredLabel : ev[k] = ""}}

AuditComment == Call("crm.timeline.comment.add", "falha")

\* C4 as stated: with a required field empty, processar_agendamento_get
\* makes no gateway call at all, and its failure names exactly the missing
\* fields.
C4_NoGatewayCallAtAll ==
    \A p \in procs :
        IsGet(p) /\ MissingLabels(event[p]) /= {} =>
            /\ frame[p].calls = <<>>
            /\ Done(p) => /\ Failed(p)
                          /\ Range(frame[p].result.campos) = MissingLabels(event[p])

\* C4: with a required field empty, processar_agendamento_get makes no
\* gateway call other than the one attempt to comment the failure on the
\* lead, returns a failure, and the failure names every missing field and no
\* present field.
C4_MissingFieldsShortCircuit ==
    \A p \in procs :
        IsGet(p) /\ MissingLabels(event[p]) /= {} =>
            /\ frame[p].pc \in {"start", "comment_falha", "done"}
            /\ frame[p].calls \in {<<>>, <<AuditComment>>}
            /\ Done(p) => /\ Failed(p)
                          /\ frame[p].result.como = "return"
                          /\ frame[p].calls = <<AuditComment>>
                          /\ Range(frame[p].result.campos) = MissingLabels(event[p])

\* C4 witness: date and procedure missing, the others present; the failure
\* was returned after the comment was attempted.
C4_Witness ==
    \E p \in procs :
        /\ IsGet(p) /\ Failed(p)
        /\ MissingLabels(event[p]) = {LabelData, LabelProcedimento}
        /\ frame[p].result.campos = <<LabelData, LabelProcedimento>>
        /\ frame[p].calls = <<AuditComment>>

\* An input error of processar_agendamento_get: a required field missing, or
\* an establishment that is no integer.
InputError(ev) ==
    \/ MissingLabels(ev) /= {}
    \/ ev.estabelecimento \notin IntStrings

\* C5: an input error in processar_agendamento_get is terminal and the only
\* external call is the comment on the lead: no roster query, customer
\* creation, booking, record update or record creation, and the CRM records
\* hold no booking and no deal.
C5_InputErrorOnlyComments ==
    \A p \in procs :
        IsGet(p) /\ InputError(event[p]) =>
            /\ frame[p].pc \in {"start", "comment_falha", "done"}
            /\ Range(frame[p].calls) \subseteq {AuditComment}
            /\ Done(p) => Failed(p) /\ Did(p, "crm.timeline.comment.add", "falha")
            /\ deals = <<>>
            /\ leadFields[FIELD_CODIGO_AGENDAMENTO] = None

\* C5 witness: every field present, the establishment is the text "abc";
\* HTTP 500 was raised after the comment.
C5_Witness ==
    \E p \in procs :
        /\ IsGet(p) /\ Failed(p)
        /\ MissingLabels(event[p]) = {}
        /\ event[p].estabelecimento = "abc"
        /\ frame[p].result.como = "raise"
        /\ frame[p].calls = <<AuditComment>>

\* C6: every terminal failure of processar_agendamento_get has attempted the
\* failure comment on the lead before it returns or raises, and the result
\* is the failure itself, not an exception of the comment.
C6_EveryFailureComments ==
    \A p \in procs :
        IsGet(p) /\ Failed(p) =>
            /\ Did(p, "crm.timeline.comment.add", "falha")
            /\ frame[p].result.message /= "excecao_comentario"

\* The roster r is not empty and holds no bookable entry of the professional:
\* the professional is absent, or every entry of the professional has
\* possui_agenda other than "Sim" (codes compared stripped and upper-cased).
PairingInvalid(cod_profissional, r) ==
    /\ r.kind = "roster" /\ ~r.raised
    /\ r.usuarios /= <<>>
    /\ \A i \in DOMAIN r.usuarios :
          StripUpper(r.usuarios[i].cod_usuario) = StripUpper(cod_profissional)
            => r.usuarios[i].possui_agenda /= "Sim"

\* C7: in processar_agendamento_get, a non-empty roster in which the
\* professional is absent or not bookable makes the pairing invalid; an
\* invalid pairing goes only to the failure comment and the return of a
\* failure, with no customer creation call and no booking call.
C7_InvalidPairingIsTerminal ==
    /\ [](\A p \in procs :
            IsGet(p) /\ frame[p].falha.tipo = "profissional_invalido" =>
                /\ frame[p].pc \in {"comment_falha", "done"}
                /\ Methods(p) \cap {"cliente/gravar", "agenda/gravar"} = {}
                /\ Done(p) => Failed(p) /\ frame[p].result.como = "return")
    /\ [][\A p \in procs :
            /\ IsGet(p)
            /\ frame[p].pc = "roster_resp"
            /\ PairingInvalid(event[p].profissional, frame[p].resp)
            /\ frame'[p] /= frame[p]
            => frame'[p].falha.tipo = "profissional_invalido"]_vars

\* C7 witness: the professional is in the roster without an agenda; the
\* failure was returned after the roster query and the comment only.
C7_Witness ==
    \E p \in procs :
        /\ IsGet(p) /\ Failed(p)
        /\ frame[p].result.erro_tipo = "profissional_invalido"
        /\ frame[p].erro_prof = "nao possui agenda"
        /\ frame[p].calls = <<Call("usuario/buscar", "roster"), AuditComment>>

RosterErrored(p) == "erro_validar_profissional_estabelecimento" \in frame[p].log

\* C8: in processar_agendamento_get, when the roster query raised, the
\* pairing counts as valid: the invocation never fails for an invalid
\* pairing and goes on to the customer stage and the booking.
C8_RosterErrorIsNonFatal ==
    /\ [](\A p \in procs :
            IsGet(p) /\ RosterErrored(p) =>
                /\ frame[p].prof_valido
                /\ frame[p].falha.tipo /= "profissional_invalido")
    /\ [][\A p \in procs :
            /\ IsGet(p)
            /\ frame[p].pc = "roster_resp"
            /\ frame[p].resp.raised
            /\ frame'[p] /= frame[p]
            => /\ frame'[p].pc = "lead_get"
               /\ frame'[p].falha = NoFalha
               /\ RosterErrored(p)']_vars

\* C8 witness: the roster query raised, the booking was made and the
\* invocation returned success with booking code 9001.
C8_Witness ==
    \E p \in procs :
        /\ IsGet(p) /\ Succeeded(p)
        /\ RosterErrored(p)
        /\ Did(p, "agenda/gravar", "agendamento")
        /\ frame[p].result.codigo_agendamento = "9001"

\* C9: in processar_agendamento_get, an exception of the customer creation
\* call is a terminal failure: a failure result is returned, and no booking
\* call, lead update or promotion is issued.
C9_CustomerCreationFailureIsTerminal ==
    /\ [](\A p \in procs :
            IsGet(p) /\ frame[p].falha.tipo = "erro_criar_cliente" =>
                /\ frame[p].pc \in {"comment_falha", "done"}
                /\ Methods(p) \cap {"agenda/gravar", "crm.lead.update", "crm.deal.add"} = {}
                /\ Done(p) => Failed(p) /\ frame[p].result.como = "return")
    /\ [][\A p \in procs :
            /\ IsGet(p)
            /\ frame[p].pc = "cliente_resp"
            /\ frame[p].resp.raised
            /\ frame'[p] /= frame[p]
            => frame'[p].falha.tipo = "erro_criar_cliente"]_vars

\* C9 witness: the creation call raised and the failure was returned; the
\* lead holds no booking code.
C9_Witness ==
    \E p \in procs :
        /\ IsGet(p) /\ Failed(p)
        /\ frame[p].falha.tipo = "erro_criar_cliente"
        /\ "erro_criar_cliente_belle" \in frame[p].log
        /\ Did(p, "cliente/gravar", "cliente")
        /\ leadFields[FIELD_CODIGO_AGENDAMENTO] = None

\* The customer code on the contact linked to the lead, None without one.
ContatoCodigo ==
    IF Truthy(leadFields["CONTACT_ID"])
    THEN contactFields[FIELD_CODIGO_CLIENTE_BELLE_CONTATO] ELSE None

\* The customer stage of processar_agendamento_get has decided whether to
\* create a customer.
ClienteResolvido(p) ==
    /\ Did(p, "crm.lead.get", "lead_info")
    /\ frame[p].pc \notin {"busca_lead", "busca_contato", "criar_cliente"}

LookupFailed(p) == "erro_buscar_codigo_cliente_contato" \in frame[p].log

\* C10 as stated, its last part: a customer code on the contact linked to
\* the lead always suppresses the creation call.
C10_ContactValueAlwaysSuppresses ==
    \A p \in procs :
        IsGet(p) /\ Truthy(ContatoCodigo) => ~Did(p, "cliente/gravar", "cliente")

\* C10: once the customer stage of processar_agendamento_get has decided,
\* the creation call was issued exactly when the request carried no
\* customer code and the lookup on the linked contact gave none, because
\* the contact holds none or is missing or a lookup call failed; the lead's
\* own customer-code field plays no part.
C10_CreationExactlyWhenNoCodeFound ==
    \A p \in procs :
        IsGet(p) /\ ClienteResolvido(p) =>
            (Did(p, "cliente/gravar", "cliente")
               <=> /\ ~Truthy(event[p].codigo_cliente_belle)
                   /\ ~Truthy(ContatoCodigo) \/ LookupFailed(p))

\* C10 witness: the code 66 is on the lead only (read by crm.lead.get), the
\* request carries none, the linked contact holds none, no lookup failed,
\* and the creation call was issued.
C10_Witness ==
    \E p \in procs :
        /\ IsGet(p) /\ ClienteResolvido(p)
        /\ frame[p].lead_info.found
        /\ frame[p].lead_info.fields[FIELD_CODIGO_CLIENTE_BELLE] = "66"
        /\ Truthy(leadFields["CONTACT_ID"])
        /\ ~Truthy(ContatoCodigo)
        /\ ~LookupFailed(p)
        /\ Did(p, "crm.contact.get", "busca_contato")
        /\ Did(p, "cliente/gravar", "cliente")

\* The booking call of processar_agendamento_get failed: the "except" of the
\* try around criar_agendamento_belle logged it ("erro_criar_agendamento_belle").
BookingFailed(p) ==
    /\ IsGet(p)
    /\ "erro_criar_agendamento_belle" \in frame[p].log

\* C11: when the booking call fails in processar_agendamento_get, the
\* invocation goes to the error comment on the lead and only the step that
\* attempts that comment ends it, by raising; no deal is created, the lead
\* is not marked converted and no line item is attached.
C11_BookingFailureCommentsThenRaises ==
    /\ [](\A p \in procs :
            BookingFailed(p) =>
               /\ frame[p].falha.como = "raise"
               /\ frame[p].pc \in {"comment_falha", "done"}
               /\ Methods(p) \cap {"crm.deal.add", "crm.deal.productrows.set"} = {}
               /\ ~Did(p, "crm.lead.update", "convertido")
               /\ deals = <<>>
               /\ leadFields["STATUS_ID"] /= "CONVERTED"
               /\ Done(p) =>
                     /\ Did(p, "crm.timeline.comment.add", "falha")
                     /\ frame[p].result.como = "raise"
                     /\ ~frame[p].result.success)
    /\ [][\A p \in procs :
             IsGet(p) /\ frame[p].pc = "book_resp"
             /\ (frame[p].resp.raised \/ BelleRetornouErro(frame[p].resp)) =>
                 /\ frame'[p].pc = "comment_falha"
                 /\ "erro_criar_agendamento_belle" \in frame'[p].log]_vars

\* C11 witness: the booking request was sent and failed inside the booking
\* system, the error comment was attempted and the error was raised.
C11_Witness ==
    \E p \in procs :
        /\ BookingFailed(p) /\ Done(p)
        /\ Did(p, "agenda/gravar", "agendamento")
        /\ frame[p].falha.tipo = "erro_processar"
        /\ Did(p, "crm.timeline.comment.add", "falha")
        /\ frame[p].result.como = "raise"

\* The position in the stage table of processar_agendamento_get of the stage
\* that issues call c: 2 resolve establishment (the list lookup and the
\* warning comment), 3 professional-establishment pairing (the roster
\* query), 4 resolve customer (the lead and contact reads, the customer
\* creation and the write of the created code), 6 book appointment,
\* 7 update source record, 8 audit comment, 9 promote to destination (the
\* read of the lead, the deal creation and the mark as converted),
\* 10 attach line item; 11 is the comment of a terminal failure, after which
\* the invocation ends.
StageRank(c) ==
    CASE c.method = "lists.element.get" -> 2
      [] c = Call("crm.timeline.comment.add", "aviso") -> 2
      [] c.method = "usuario/buscar" -> 3
      [] c = Call("crm.lead.get", "lead_info") -> 4
      [] c.stage = "busca_contato" -> 4
      [] c.method = "cliente/gravar" -> 4
      [] c = Call("crm.lead.update", "codigo_cliente") -> 4
      [] c.method = "agenda/gravar" -> 6
      [] c = Call("crm.lead.update", "agendamento") -> 7
      [] c = Call("crm.timeline.comment.add", "sucesso") -> 8
      [] c.stage = "conversao" -> 9
      [] c = Call("crm.lead.update", "convertido") -> 9
      [] c.method = "crm.deal.productrows.set" -> 10
      [] c = Call("crm.timeline.comment.add", "falha") -> 11

\* The one call that carries out each stage the claim names.
StageCalls ==
    { Call("usuario/buscar", "roster"), Call("cliente/gravar", "cliente"),
      Call("agenda/gravar", "agendamento"), Call("crm.lead.update", "agendamento"),
      Call("crm.timeline.comment.add", "sucesso"), Call("crm.deal.add", "conversao"),
      Call("crm.deal.productrows.set", "produto") }

\* C12: within one invocation of processar_agendamento_get no call of a
\* later stage of the stage table is issued before a call of an earlier
\* stage, and the roster query, the customer creation, the booking, the lead
\* update, the audit comment, the deal creation and the line item are each
\* issued at most once, strictly in that order.
C12_CallsInStageOrder ==
    \A p \in procs :
        IsGet(p) =>
            \A j \in 2..Len(frame[p].calls) :
                LET b == frame[p].calls[j]
                IN  /\ StageRank(frame[p].calls[j - 1]) <= StageRank(b)
                    /\ b \in StageCalls =>
                          \A i \in 1..(j - 1) : frame[p].calls[i] /= b

\* C12 witness: an invocation that went through every stage, customer
\* creation included, and returned.
C12_Witness ==
    \E p \in procs :
        /\ IsGet(p) /\ Succeeded(p)
        /\ StageCalls \subseteq Range(frame[p].calls)
        /\ Did(p, "crm.lead.update", "codigo_cliente")
        /\ Len(frame[p].calls) >= 11

\* The pipeline and stage the Pipeline Router gives for the canonical
\* establishment code the invocation resolved the event's establishment to.
RotaCanonica(p) == obter_pipeline_por_estabelecimento(ToString(frame[p].estab_belle))

\* C13: every deal is created in the category and stage that
\* obter_pipeline_por_estabelecimento gives for the canonical establishment
\* code of the event, whether the event carried that code or the CRM's list
\* element id of the establishment.
C13_DealInRoutedPipeline ==
    \A p \in procs :
        \A i \in 1..Len(deals) :
            frame[p].deal_id = i =>
                <<deals[i].CATEGORY_ID, deals[i].STAGE_ID>> = RotaCanonica(p)

Applied(p, fn) ==
    /\ event[p].handler = "tables"
    /\ event[p].fn = fn
    /\ frame[p].pc = "ret"

\* C14: obter_pipeline_por_estabelecimento returns, for every establishment
\* code with an entry in ESTABELECIMENTO_TO_PIPELINE, that entry's category
\* and stage, and for every other code, the absent code None included, the
\* default pair (42, "C42:UC_12PH7E") with a warning; it always returns a
\* pair of a category number and a stage name.
C14_PipelineRouterIsTotal ==
    \A p \in procs :
        Applied(p, "obter_pipeline_por_estabelecimento") =>
            LET codigo == Strip(event[p].arg)
                ret == frame[p].ret
            IN  /\ ret \in Int \X {"C42:UC_12PH7E", "C48:UC_7TGHGJ", "C50:UC_KEJS7X", "C54:NEW"}
                /\ codigo \in DOMAIN ESTABELECIMENTO_TO_PIPELINE =>
                      ret = ESTABELECIMENTO_TO_PIPELINE[codigo]
                /\ codigo \notin DOMAIN ESTABELECIMENTO_TO_PIPELINE =>
                      /\ ret = <<42, "C42:UC_12PH7E">>
                      /\ "estabelecimento_sem_pipeline_mapeado_usando_padrao" \in frame[p].log

\* C14 witness: the router was applied to the absent code and returned the
\* default pair.
C14_Witness ==
    \E p \in procs :
        /\ Applied(p, "obter_pipeline_por_estabelecimento")
        /\ event[p].arg = None
        /\ frame[p].ret = <<42, "C42:UC_12PH7E">>

\* C17: for a field id of ENUM_FIELD_MAPPINGS, converter_enum_lead_para_deal
\* returns the option id the field's table gives for an option id of the
\* table, with no warning, and returns an option id that is not in the table
\* as it came, with the warning "enum_sem_mapeamento"; an empty value is
\* returned as it came.
C17_EnumRemapOrPassThrough ==
    \A p \in procs :
        Applied(p, "converter_enum_lead_para_deal")
        /\ event[p].field \in DOMAIN ENUM_FIELD_MAPPINGS =>
            LET mapping == ENUM_FIELD_MAPPINGS[event[p].field]
                valor == event[p].arg
            IN  /\ valor \in DOMAIN mapping =>
                      /\ frame[p].ret = mapping[valor]
                      /\ frame[p].log = {}
                /\ valor \notin DOMAIN mapping =>
                      /\ frame[p].ret = valor
                      /\ Truthy(valor) => frame[p].log = {"enum_sem_mapeamento"}

\* C17 witness: an option id of the campaign table was remapped.
C17_Witness ==
    \E p \in procs :
        /\ Applied(p, "converter_enum_lead_para_deal")
        /\ event[p].field = LEAD_FIELD_CAMPANHA
        /\ event[p].arg = "3720"
        /\ frame[p].ret = "3306"

\* The key under which a translation looks its argument up, and the table.
ChaveDaTraducao(ev) ==
    IF ev.fn = "converter_procedimento_para_bitrix"
    THEN extrair_nome_procedimento(ev.arg) ELSE Strip(ev.arg)

TabelaDaTraducao(ev) ==
    CASE ev.fn = "converter_belle_para_bitrix_profissional" -> BELLE_TO_BITRIX_PROFISSIONAL
      [] ev.fn = "converter_belle_para_bitrix_estabelecimento" -> BELLE_TO_BITRIX_ESTABELECIMENTO
      [] ev.fn = "converter_procedimento_para_bitrix" -> BITRIX_PROCEDIMENTO_POR_NOME

\* C19: the translation of a professional, an establishment or a procedure
\* whose code is not empty and has no entry in the class's table returns
\* the code it was given.
C19_MissPassesCodeThrough ==
    \A p \in procs :
        /\ event[p].handler = "tables"
        /\ event[p].fn \in {"converter_belle_para_bitrix_profissional",
                            "converter_belle_para_bitrix_estabelecimento",
                            "converter_procedimento_para_bitrix"}
        /\ frame[p].pc = "ret"
        /\ Truthy(event[p].arg)
        /\ ChaveDaTraducao(event[p]) \notin DOMAIN TabelaDaTraducao(event[p])
        => frame[p].ret = event[p].arg

\* C20: applied to an establishment code that is already canonical (a code of
\* BELLE_CODES_VALIDOS), converter_estabelecimento_para_belle returns that
\* code, and so does every further application to what it returned; it never
\* reaches the CRM lookup and issues no call.
C20_CanonicalCodeIsFixedPoint ==
    \A p \in procs :
        /\ event[p].handler = "tables"
        /\ event[p].fn = "converter_estabelecimento_para_belle"
        /\ event[p].orig \in BELLE_CODES_VALIDOS
        => /\ event[p].arg = event[p].orig
           /\ frame[p].pc \in {"call", "ret"}
           /\ frame[p].pc = "ret" => frame[p].ret = event[p].arg
           /\ frame[p].calls = <<>>
           /\ frame[p].log = {}

\* C20 witness: the second application to canonical code 5 returned 5.
C20_Witness ==
    \E p \in procs :
        /\ event[p].handler = "tables"
        /\ event[p].fn = "converter_estabelecimento_para_belle"
        /\ event[p].orig = 5 /\ event[p].n = 2
        /\ frame[p].pc = "ret" /\ frame[p].ret = 5
        /\ frame[p].calls = <<>>

\* The value of the deal field k in the fields converter_lead_para_negocio
\* built, or None when the fields have no key k.
CampoDoDeal(p, k) == IF k \in DOMAIN frame[p].ret THEN frame[p].ret[k] ELSE None

\* What the request's code of a professional, establishment or procedure
\* becomes: the CRM element id of its table, or the code itself.
Traduzido(id, codigo) == IF Truthy(id) THEN id ELSE codigo

\* The deal's procedure from the request: the id of the procedure, else the
\* id of the service name, else the procedure's code.
ProcedimentoDoPedido(dados) ==
    IF Truthy(converter_procedimento_para_bitrix(dados["procedimento"]))
    THEN Lista(converter_procedimento_para_bitrix(dados["procedimento"]))
    ELSE IF Truthy(converter_procedimento_para_bitrix(dados["servico_nome"]))
    THEN Lista(converter_procedimento_para_bitrix(dados["servico_nome"]))
    ELSE dados["procedimento"]

\* C15: in the fields converter_lead_para_negocio sends, each of booking code,
\* procedure name, date, professional, establishment, procedure, visit type
\* and customer code that the request supplies holds the value derived from
\* the request, whatever the lead holds in the corresponding field.
C15_OverridesTakePrecedence ==
    \A p \in procs :
        Applied(p, "converter_lead_para_negocio") =>
            LET dados == event[p].dados
                codigo == event[p].codigo_agendamento
            IN  /\ Truthy(codigo) => CampoDoDeal(p, DEAL_FIELD_CODIGO_AGENDAMENTO) = codigo
                /\ Truthy(dados["servico_nome"]) =>
                      CampoDoDeal(p, DEAL_FIELD_PROCEDIMENTO_NOME) = dados["servico_nome"]
                /\ Truthy(dados["data_agendamento"]) =>
                      CampoDoDeal(p, DEAL_FIELD_DATA_AGENDAMENTO)
                          = DataAgendamentoIso(dados["data_agendamento"])
                /\ Truthy(dados["profissional"]) =>
                      CampoDoDeal(p, DEAL_FIELD_PROFISSIONAL)
                          = Traduzido(converter_belle_para_bitrix_profissional(dados["profissional"]),
                                      dados["profissional"])
                /\ Truthy(dados["estabelecimento"]) =>
                      CampoDoDeal(p, DEAL_FIELD_ESTABELECIMENTO)
                          = Traduzido(converter_belle_para_bitrix_estabelecimento(dados["estabelecimento"]),
                                      dados["estabelecimento"])
                /\ Truthy(dados["procedimento"]) =>
                      CampoDoDeal(p, DEAL_FIELD_PROCEDIMENTO) = ProcedimentoDoPedido(dados)
                /\ Truthy(dados["tipo_atendimento_direto"]) =>
                      CampoDoDeal(p, DEAL_FIELD_TIPO_ATENDIMENTO) = dados["tipo_atendimento_direto"]
                /\ ~Truthy(dados["tipo_atendimento_direto"]) /\ Truthy(dados["tipo_consulta"]) =>
                      CampoDoDeal(p, DEAL_FIELD_TIPO_ATENDIMENTO)
                          = converter_enum_lead_para_deal(LEAD_FIELD_TIPO_ATENDIMENTO,
                                                          dados["tipo_consulta"])
                /\ Truthy(dados["codigo_cliente_belle"]) =>
                      CampoDoDeal(p, DEAL_FIELD_CODIGO_CLIENTE_BELLE)
                          = dados["codigo_cliente_belle"]

\* The deal fields of LEAD_TO_DEAL_FIELD_MAP.
MappedDealFields == {LEAD_TO_DEAL_FIELD_MAP[f] : f \in DOMAIN LEAD_TO_DEAL_FIELD_MAP}

\* The deal fields dados_agendamento and the booking code write when the lead
\* gave none.
CamposDoPedido(codigo_agendamento, dados) ==
    DOMAIN DadosSobrepostos(<<>>, codigo_agendamento, dados)

\* C16: in the fields converter_lead_para_negocio sends to crm.deal.add, no
\* deal field of LEAD_TO_DEAL_FIELD_MAP holds an empty text or None, and a
\* field of the map whose value in the lead is empty or absent, the lead that
\* could not be read included, has no key at all unless the request wrote it.
C16_NoMappedFieldWrittenEmpty ==
    \A p \in procs :
        Applied(p, "converter_lead_para_negocio") =>
            LET deal_fields == frame[p].ret
                lead_data == event[p].lead_data
            IN  /\ \A k \in MappedDealFields \cap DOMAIN deal_fields : Truthy(deal_fields[k])
                /\ \A f \in DOMAIN LEAD_TO_DEAL_FIELD_MAP :
                      /\ ~(lead_data.found /\ Truthy(lead_data.fields[f]))
                      /\ LEAD_TO_DEAL_FIELD_MAP[f] \notin
                            CamposDoPedido(event[p].codigo_agendamento, event[p].dados)
                      => LEAD_TO_DEAL_FIELD_MAP[f] \notin DOMAIN deal_fields

\* C16 witness: a lead that was read, with an empty origem and no
\* professional, and a request that supplies neither: the fields built have
\* no origem and no professional, and do have the agendador the lead holds.
C16_Witness ==
    \E p \in procs :
        /\ Applied(p, "converter_lead_para_negocio")
        /\ event[p].lead_data.found
        /\ event[p].lead_data.fields[LEAD_FIELD_ORIGEM] = ""
        /\ event[p].lead_data.fields[LEAD_FIELD_PROFISSIONAL] = None
        /\ event[p].lead_data.fields[LEAD_FIELD_AGENDADOR] = "136"
        /\ event[p].dados = SemDados
        /\ DEAL_FIELD_ORIGEM \notin DOMAIN frame[p].ret
        /\ DEAL_FIELD_PROFISSIONAL \notin DOMAIN frame[p].ret
        /\ frame[p].ret[DEAL_FIELD_AGENDADOR] = "136"

\* C18: for a field id that is not in ENUM_FIELD_MAPPINGS,
\* converter_enum_lead_para_deal returns every value as it came, with no
\* warning; and converter_lead_para_negocio copies the value of a lead field
\* that is not in ENUM_FIELDS to its deal field unchanged, unless the request
\* writes that deal field.
C18_UnregisteredFieldIsCopiedUnchanged ==
    \A p \in procs :
        /\ Applied(p, "converter_enum_lead_para_deal")
           /\ event[p].field \notin DOMAIN ENUM_FIELD_MAPPINGS =>
               /\ frame[p].ret = event[p].arg
               /\ frame[p].log = {}
        /\ Applied(p, "converter_lead_para_negocio") /\ event[p].lead_data.found =>
               \A f \in DOMAIN LEAD_TO_DEAL_FIELD_MAP \ ENUM_FIELDS :
                   /\ Truthy(event[p].lead_data.fields[f])
                   /\ LEAD_TO_DEAL_FIELD_MAP[f] \notin
                         CamposDoPedido(event[p].codigo_agendamento, event[p].dados)
                   => CampoDoDeal(p, LEAD_TO_DEAL_FIELD_MAP[f]) = event[p].lead_data.fields[f]

\* C18 witness: the agendador of the lead, "136", which the origem table
\* would turn into "220", is in the deal as "136".
C18_Witness ==
    \E p \in procs :
        /\ Applied(p, "converter_lead_para_negocio")
        /\ event[p].lead_data.found
        /\ event[p].lead_data.fields[LEAD_FIELD_AGENDADOR] = "136"
        /\ event[p].lead_data.fields[LEAD_FIELD_ORIGEM] = "136"
        /\ event[p].dados["agendador"] = None
        /\ event[p].dados["origem"] = None
        /\ frame[p].ret[DEAL_FIELD_AGENDADOR] = "136"
        /\ frame[p].ret[DEAL_FIELD_ORIGEM] = "220"

-----------------------------------------------------------------------------
(* C21: resolving the establishment is non-fatal                           *)

\* The CRM lookup of the establishment of invocation p failed or found
\* nothing ("estabelecimento_nao_mapeado" is logged on that path only).
LookupSemResultado(f) == "estabelecimento_nao_mapeado" \in f.log

\* C21: when the establishment id of the request is neither a canonical code
\* nor a key of the inverse table, and the CRM lookup fails or finds nothing,
\* the step of converter_estabelecimento_para_belle yields the original id
\* and processar_agendamento_get goes on to the validation of the
\* establishment with it, no failure recorded; and while the request is in
\* the next stages the establishment in use is still the original id.
C21_EstablishmentLookupIsNonFatal ==
    /\ [](\A p \in procs :
            (IsGet(p) /\ LookupSemResultado(frame[p])) =>
                frame[p].estab_belle = frame[p].estab_bitrix)
    /\ [][\A p \in procs :
            (/\ IsGet(p)
             /\ frame[p].pc = "estab_lookup"
             /\ frame'[p] /= frame[p]
             /\ LookupSemResultado(frame'[p])) =>
                /\ frame'[p].estab_belle = frame[p].estab_bitrix
                /\ frame'[p].pc = "valida_estab"
                /\ frame'[p].falha = NoFalha
                /\ frame'[p].result = NoResult]_vars

\* The lookup for 999 found nothing and the request has reached the booking
\* call with 999 as its establishment.
C21_Witness ==
    \E p \in procs :
        /\ IsGet(p)
        /\ LookupSemResultado(frame[p])
        /\ event[p].estabelecimento = "999"
        /\ frame[p].estab_belle = 999
        /\ Did(p, "usuario/buscar", "roster")
        /\ Did(p, "agenda/gravar", "agendamento")

-----------------------------------------------------------------------------
(* C22..C25: parse_bitrix_servico                                          *)

\* The structured token servico[c][nome]=n.
Estruturado(c, n) == PatServico \o c \o PatNome \o n

\* The text v denotes an integer: int() accepts it.
Numerico(v) == ~int(v).raised

\* C22 as stated: for a token servico[c][nome]=n with a numeric code c and
\* parameters in which servico[c][tempo] holds an integer d,
\* parse_bitrix_servico returns code c, name n and duration d.
C22_StructuredTokenParsedVerbatim ==
    \A p \in procs :
        Applied(p, "parse_bitrix_servico") =>
            \A c \in ServicoCodes, n \in ServicoNames :
                LET q == event[p].query_params
                    k == tempo_key(c)
                IN  (/\ event[p].procedimento = Estruturado(c, n)
                     /\ k \in DOMAIN q
                     /\ Numerico(q[k])) =>
                        /\ frame[p].ret.codServico = c
                        /\ frame[p].ret.nomeServico = n
                        /\ frame[p].ret.tempo = int(q[k]).valor

\* C22, amended: for a token servico[c][nome]=n with a numeric code c and a
\* name n of at least one character, parse_bitrix_servico returns code c and
\* the name n without its leading and trailing whitespace; when the
\* parameter servico[c][tempo] holds an integer d the duration is d, whatever
\* the parameters of other codes hold, and when the request has no parameter
\* servico[c][tempo] the duration is the default and no other parameter
\* supplies it.
C22_StructuredTokenParsed ==
    \A p \in procs :
        Applied(p, "parse_bitrix_servico") =>
            \A c \in ServicoCodes, n \in ServicoNames :
                LET q == event[p].query_params
                    k == tempo_key(c)
                IN  event[p].procedimento = Estruturado(c, n) =>
                        /\ frame[p].ret.codServico = c
                        /\ frame[p].ret.nomeServico = strip(n)
                        /\ (k \in DOMAIN q /\ Numerico(q[k])) =>
                               frame[p].ret.tempo = int(q[k]).valor
                        /\ k \notin DOMAIN q => frame[p].ret.tempo = TEMPO_DEFAULT

\* C22 witness: servico[4][nome]=" B" with servico[4][tempo]=60 and
\* servico[7][tempo]=-5 gave code 4, name B and 60 minutes.
C22_Witness ==
    \E p \in procs :
        /\ Applied(p, "parse_bitrix_servico")
        /\ event[p].procedimento = Estruturado(<<"4">>, <<" ", "B">>)
        /\ tempo_key(<<"7">>) \in DOMAIN event[p].query_params
        /\ event[p].query_params[tempo_key(<<"7">>)] = <<"-", "5">>
        /\ tempo_key(<<"4">>) \in DOMAIN event[p].query_params
        /\ event[p].query_params[tempo_key(<<"4">>)] = <<"6", "0">>
        /\ frame[p].ret = [codServico |-> <<"4">>, nomeServico |-> <<"B">>, tempo |-> 60]

\* C23: parse_bitrix_servico never fails: for every token and every map of
\* parameters no exception leaves it and it returns a dict with a code, a
\* name and an integer duration; for the empty token the code and the name
\* are None and the duration is the default 30, whatever the parameters.
C23_ParseNeverFails ==
    \A p \in procs :
        (event[p].handler = "tables" /\ event[p].fn = "parse_bitrix_servico") =>
            /\ frame[p].pc \in {"call", "ret"}
            /\ frame[p].pc = "ret" =>
                  /\ DOMAIN frame[p].ret = {"codServico", "nomeServico", "tempo"}
                  /\ frame[p].ret.tempo \in Int
                  /\ event[p].procedimento = <<>> =>
                        frame[p].ret = [codServico |-> NoText, nomeServico |-> NoText,
                                        tempo |-> 30]

\* C23 witness: the empty token, with a duration parameter in the request,
\* gave no code, no name and 30 minutes.
C23_Witness ==
    \E p \in procs :
        /\ Applied(p, "parse_bitrix_servico")
        /\ event[p].procedimento = <<>>
        /\ tempo_key(<<"4">>) \in DOMAIN event[p].query_params
        /\ frame[p].ret = [codServico |-> NoText, nomeServico |-> NoText, tempo |-> 30]

\* The token of invocation p is in the structured form (the pattern occurs
\* in it) or in the bare form.
FormaEstruturada(p) == re_search(event[p].procedimento).found

\* C24: the duration parse_bitrix_servico returns is 30 whenever the request
\* has no parameter servico[c][tempo] for the code c it parsed, or that
\* parameter does not hold an integer, in the structured and in the bare
\* form of the token (and also when no code was parsed).
C24_DurationDefaultsTo30 ==
    \A p \in procs :
        Applied(p, "parse_bitrix_servico") =>
            LET cod == frame[p].ret.codServico
                q == event[p].query_params
            IN  (\/ cod = NoText
                 \/ tempo_key(cod) \notin DOMAIN q
                 \/ ~Numerico(q[tempo_key(cod)])) =>
                    frame[p].ret.tempo = 30

\* C24 witness: servico[7][nome]=A whose duration parameter holds "6.5",
\* which int() rejects, gave 30 minutes.
C24_Witness ==
    \E p \in procs :
        /\ Applied(p, "parse_bitrix_servico")
        /\ FormaEstruturada(p)
        /\ frame[p].ret.codServico = <<"7">>
        /\ tempo_key(<<"7">>) \in DOMAIN event[p].query_params
        /\ event[p].query_params[tempo_key(<<"7">>)] = <<"6", ".", "5">>
        /\ frame[p].ret.tempo = 30

\* The pieces of a list that are not the empty text.
RECURSIVE NaoVazios(_)
NaoVazios(pieces) ==
    IF pieces = <<>> THEN <<>>
    ELSE (IF Head(pieces) /= <<>> THEN <<Head(pieces)>> ELSE <<>>) \o NaoVazios(Tail(pieces))

\* The first piece of a list that has a character other than whitespace,
\* without its leading and trailing whitespace; NoText if there is none.
RECURSIVE PrimeiroElemento(_)
PrimeiroElemento(pieces) ==
    IF pieces = <<>> THEN NoText
    ELSE IF strip(Head(pieces)) /= <<>> THEN strip(Head(pieces))
    ELSE PrimeiroElemento(Tail(pieces))

\* C25 as stated: for a token that is a bare comma-separated list, the code
\* and the name parse_bitrix_servico returns both equal the first non-empty
\* element of the list.
C25_FirstElementVerbatim ==
    \A p \in procs :
        (Applied(p, "parse_bitrix_servico") /\ ~FormaEstruturada(p)) =>
            LET elementos == NaoVazios(split(event[p].procedimento))
            IN  elementos /= <<>> =>
                    /\ frame[p].ret.codServico = elementos[1]
                    /\ frame[p].ret.nomeServico = elementos[1]

\* C25, amended: for a token that is a bare comma-separated list (the
\* structured pattern occurs nowhere in it), parse_bitrix_servico uses only
\* the first element that is not empty once its surrounding whitespace is
\* removed: the code and the name both equal that element without its
\* surrounding whitespace, numeric or not, and the duration is the default;
\* the result is a function of that element alone, so the later elements
\* never influence it.  With no such element the code and the name are None.
C25_FirstElementOnly ==
    \A p \in procs :
        (Applied(p, "parse_bitrix_servico") /\ ~FormaEstruturada(p)) =>
            LET e == PrimeiroElemento(split(event[p].procedimento))
            IN  frame[p].ret = [codServico |-> e, nomeServico |-> e, tempo |-> TEMPO_DEFAULT]

\* C25 witness: the list " , A4 ,7" gave the code and the name "A4".
C25_Witness ==
    \E p \in procs :
        /\ Applied(p, "parse_bitrix_servico")
        /\ event[p].procedimento = <<" ", ",", " ", "A", "4", " ", ",", "7">>
        /\ frame[p].ret.codServico = <<"A", "4">>
        /\ frame[p].ret.nomeServico = <<"A", "4">>

-----------------------------------------------------------------------------
(* C26, C27: the document criar_cliente_belle sends                        *)

\* The requests criar_cliente_belle has sent in invocation p, in order.
PedidosCliente(p) ==
    IF event[p].handler = "tables" /\ event[p].fn = "criar_cliente_belle"
    THEN frame[p].calls ELSE <<>>

\* C26: two calls of criar_cliente_belle for the same lead id, both without
\* an identity document, send the same document, whatever the name and the
\* telephone of the two calls and whatever the first call was.
C26_SynthesizedDocumentIsDeterministic ==
    \A p \in procs :
        \A i, j \in 1..Len(PedidosCliente(p)) :
            LET a == PedidosCliente(p)[i]
                b == PedidosCliente(p)[j]
            IN  (/\ a.args.lead_id = b.args.lead_id
                 /\ a.args.cpf = NoText
                 /\ b.args.cpf = NoText) =>
                    a.payload.cpf = b.payload.cpf

\* C26 witness: two calls for lead 101 without a document, with different
\* names and telephones, sent the same document both times.
C26_Witness ==
    \E p \in procs :
        /\ Len(PedidosCliente(p)) = 2
        /\ LET a == PedidosCliente(p)[1]
               b == PedidosCliente(p)[2]
           IN  /\ a.args.lead_id = 101 /\ b.args.lead_id = 101
               /\ a.args.cpf = NoText /\ b.args.cpf = NoText
               /\ a.args.nome /= b.args.nome
               /\ a.args.telefone /= b.args.telefone
               /\ a.payload.cpf = <<"0", "0", "0", "0", "0", "0", "1", "0", "1", "5", "4">>
               /\ b.payload.cpf = a.payload.cpf

\* The check digit of the mod-11 rule for the digits s weighted from peso
\* down: ((sum * 10) mod 11) mod 10.
Mod11(s, peso) == ((SomaPonderada(s, peso) * 10) % 11) % 10

\* The i-th of the nine decimal digits of n, from the left, n read modulo
\* 10^9.
RECURSIVE Pow10(_)
Pow10(k) == IF k = 0 THEN 1 ELSE 10 * Pow10(k - 1)

NoveDigitos(n) == [i \in 1..9 |-> DigitChar((n \div Pow10(9 - i)) % 10)]

\* The identity document of a call is missing or malformed: its digits do
\* not number exactly 11.
SemDocumento(cpf) == cpf = NoText \/ Len(SoDigitos(cpf)) /= 11

-----------------------------------------------------------------------------
(* C28: no retries                                                         *)

\* How many times invocation p has issued the call c.
Vezes(p, c) == Cardinality({i \in 1..Len(frame[p].calls) : frame[p].calls[i] = c})

\* The customer creation call, the booking call and the deal creation call.
ChamadasSemRetry ==
    { Call("cliente/gravar", "cliente"), Call("agenda/gravar", "agendamento"),
      Call("crm.deal.add", "conversao") }

\* C28: within one invocation of processar_agendamento_get the customer
\* creation call, the booking call and the deal creation call are each
\* issued at most once; and the step that follows a failed call issues no
\* call and records the stage's failure: after cliente/gravar raised, the
\* failure "erro_criar_cliente"; after agenda/gravar raised, the failure
\* "erro_http"; and a crm.deal.add that raised ends the conversion with
\* "erro_criar_negocio" logged, no deal and no second attempt.
C28_NoRetries ==
    /\ [](\A p \in procs : IsGet(p) => \A c \in ChamadasSemRetry : Vezes(p, c) <= 1)
    /\ [][\A p \in procs :
            (IsGet(p) /\ frame'[p] /= frame[p]) =>
                /\ (frame[p].pc = "cliente_resp" /\ frame[p].resp.raised) =>
                       /\ frame'[p].calls = frame[p].calls
                       /\ frame'[p].falha = Falha("erro_criar_cliente", "return")
                /\ (frame[p].pc = "book_resp" /\ frame[p].resp.raised) =>
                       /\ frame'[p].calls = frame[p].calls
                       /\ frame'[p].falha = Falha("erro_http", "raise")
                /\ (/\ frame[p].pc = "deal_add"
                    /\ "erro_criar_negocio" \in frame'[p].log) =>
                       /\ Vezes(p, Call("crm.deal.add", "conversao")) = 0
                       /\ frame'[p].deal_id = 0
                       /\ frame'[p].pc /= "deal_add"
                       /\ deals' = deals]_vars

\* C28 witness: cliente/gravar raised, the request ended with the failure
\* of that stage and cliente/gravar was issued once.
C28_Witness ==
    \E p \in procs :
        /\ IsGet(p)
        /\ Done(p)
        /\ frame[p].falha.tipo = "erro_criar_cliente"
        /\ Vezes(p, Call("cliente/gravar", "cliente")) = 1
        /\ ~Did(p, "agenda/gravar", "agendamento")

\* The agenda/gravar calls invocation p has issued.
Agendamentos(p) ==
    {i \in DOMAIN frame[p].calls : frame[p].calls[i] = Call("agenda/gravar", "agendamento")}

\* C29: processar_agendamento_get is not idempotent.  With two invocations
\* for the same event and every gateway call succeeding, each invocation
\* that ends has ended with success after one booking call (agenda/gravar)
\* and one crm.deal.add that created a deal of its own, whatever the other
\* invocation had already written to the lead; once both have ended there
\* are two bookings and two deals.
C29_NotIdempotent ==
    /\ \A p \in procs :
         Done(p) =>
           /\ Succeeded(p)
           /\ Cardinality(Agendamentos(p)) = 1
           /\ Did(p, "crm.deal.add", "conversao")
           /\ frame[p].deal_id \in 1..Len(deals)
    /\ (\A p \in procs : Done(p)) =>
         /\ Len(deals) = Cardinality(procs)
         /\ \A p, q \in procs : p /= q => frame[p].deal_id /= frame[q].deal_id

\* The second invocation read the lead after the first had marked it
\* converted (one invocation after the other), and both ended with success:
\* two bookings, two deals.
C29_Witness ==
    /\ procs = PairProcs
    /\ Succeeded(1) /\ Succeeded(2)
    /\ frame[2].lead_info.found
    /\ frame[2].lead_info.fields["STATUS_ID"] = "CONVERTED"
    /\ Truthy(frame[2].lead_info.fields[FIELD_CODIGO_AGENDAMENTO])
    /\ Cardinality(Agendamentos(1)) = 1 /\ Cardinality(Agendamentos(2)) = 1
    /\ Len(deals) = 2

\* C30: two invocations for the same lead are not serialized.  Each update
\* of the lead that succeeds writes the invocation's own values over
\* whatever the lead holds (the last update wins), so the booking code on
\* the lead is always that of an invocation that updated it; and there are
\* runs in which both invocations find no customer code, both create a
\* customer and both book.
C30_LastUpdateWins ==
    /\ [](\A k \in {FIELD_CODIGO_AGENDAMENTO} :
            Truthy(leadFields[k]) =>
              \E p \in procs : /\ Did(p, "crm.lead.update", "agendamento")
                               /\ leadFields[k] = frame[p].codigo_agendamento)
    /\ [][\A p \in procs :
            (frame[p].pc = "update_lead" /\ frame'[p].pc = "comment_sucesso") =>
              LET campos == CamposAtualizar(event[p], frame[p].codigo_agendamento,
                                            frame[p].codigo_cliente_belle)
              IN  \A k \in DOMAIN campos : leadFields'[k] = campos[k]]_vars

\* Both invocations read the lead before either had updated it, both found
\* no customer code and created a customer, both booked, with different
\* booking codes, and the lead holds the code of invocation 1 although
\* invocation 2 updated it too.
C30_Witness ==
    /\ procs = PairProcs
    /\ \A p \in procs :
         /\ Succeeded(p)
         /\ frame[p].lead_info.found
         /\ ~Truthy(frame[p].lead_info.fields[FIELD_CODIGO_AGENDAMENTO])
         /\ ~Truthy(frame[p].lead_info.fields[FIELD_CODIGO_CLIENTE_BELLE])
         /\ frame[p].cliente_criado_agora
         /\ Did(p, "cliente/gravar", "cliente")
         /\ Did(p, "agenda/gravar", "agendamento")
         /\ Did(p, "crm.lead.update", "agendamento")
    /\ frame[1].codigo_agendamento /= frame[2].codigo_agendamento
    /\ leadFields[FIELD_CODIGO_AGENDAMENTO] = frame[1].codigo_agendamento

\* The handler logged that the professional is invalid for the
\* establishment: the cause of the failure is the pairing.
ParInvalido(p) == "profissional_invalido_para_estabelecimento" \in frame[p].log

\* C31: the failure result of processar_agendamento_get for an invalid
\* professional-establishment pairing carries erro_tipo =
\* "profissional_invalido", and no result of any other failure cause, of
\* any handler, carries that tag.
C31_InvalidPairingIsDistinguishable ==
    \A p \in procs :
        Done(p) =>
            /\ (IsGet(p) /\ ParInvalido(p)) =>
                  /\ Failed(p)
                  /\ frame[p].result.como = "return"
                  /\ frame[p].result.erro_tipo = "profissional_invalido"
            /\ frame[p].result.erro_tipo = "profissional_invalido" =>
                  IsGet(p) /\ ParInvalido(p)
            /\ ~(IsGet(p) /\ ParInvalido(p)) => frame[p].result.erro_tipo = None

\* A failure for the invalid pairing, returned with the tag.
C31_Witness ==
    \E p \in procs :
        /\ IsGet(p) /\ Failed(p) /\ ParInvalido(p)
        /\ frame[p].result.como = "return"
        /\ frame[p].result.erro_tipo = "profissional_invalido"
        /\ frame[p].result.message = "profissional_invalido"

\* The crm.lead.update calls invocation p has issued, by stage.
AtualizacoesDoLead(p) ==
    {c.stage : c \in {d \in Range(frame[p].calls) : d.method = "crm.lead.update"}}

\* C32 as stated: when an invocation of processar_agendamento_get ends in a
\* failure, the lead's fields are those the invocation read at its start.
C32_FailureWritesNoField ==
    \A p \in procs :
        (IsGet(p) /\ Failed(p) /\ frame[p].lead_info.found) =>
            leadFields = frame[p].lead_info.fields

\* C32: when an invocation of processar_agendamento_get ends in a failure,
\* the only field of the lead it can have written is the customer code,
\* written after it created a customer and before the booking failed; the
\* booking fields and the status are as the invocation found them, and
\* every write to the lead is a crm.lead.update call.
C32_FailureWritesAtMostCustomerCode ==
    /\ [](\A p \in procs :
            (IsGet(p) /\ Failed(p)) =>
               /\ AtualizacoesDoLead(p) \subseteq {"codigo_cliente"}
               /\ frame[p].lead_info.found =>
                    /\ \A k \in LeadKeys \ {FIELD_CODIGO_CLIENTE_BELLE} :
                          leadFields[k] = frame[p].lead_info.fields[k]
                    /\ leadFields[FIELD_CODIGO_CLIENTE_BELLE]
                         /= frame[p].lead_info.fields[FIELD_CODIGO_CLIENTE_BELLE] =>
                          /\ frame[p].cliente_criado_agora
                          /\ Did(p, "cliente/gravar", "cliente")
                          /\ Did(p, "agenda/gravar", "agendamento")
                          /\ leadFields[FIELD_CODIGO_CLIENTE_BELLE] = frame[p].codigo_cliente_belle)
    /\ [][\A p \in procs :
            (IsGet(p) /\ leadFields' /= leadFields) =>
               /\ Len(frame'[p].calls) = Len(frame[p].calls) + 1
               /\ frame'[p].calls[Len(frame'[p].calls)].method = "crm.lead.update"]_vars

\* The invocation created a customer, wrote its code to the lead, and then
\* the booking failed: the failure leaves the lead with a field written.
C32_Witness ==
    \E p \in procs :
        /\ IsGet(p) /\ Failed(p)
        /\ frame[p].lead_info.found
        /\ frame[p].cliente_criado_agora
        /\ Did(p, "agenda/gravar", "agendamento")
        /\ leadFields[FIELD_CODIGO_CLIENTE_BELLE] = frame[p].codigo_cliente_belle
        /\ leadFields[FIELD_CODIGO_CLIENTE_BELLE]
             /= frame[p].lead_info.fields[FIELD_CODIGO_CLIENTE_BELLE]
        /\ leadFields[FIELD_CODIGO_AGENDAMENTO] = None

\* The position of the first call (m, s) among the calls of invocation p;
\* 0 when there is none.
Posicao(p, m, s) ==
    LET S == {i \in DOMAIN frame[p].calls : frame[p].calls[i] = Call(m, s)}
    IN  IF S = {} THEN 0 ELSE CHOOSE i \in S : \A j \in S : i <= j

\* C33: in converter_lead_para_negocio the status update that marks the lead
\* converted is issued only after crm.deal.add returned an id; when the
\* creation raised or returned no id no status update is issued and the lead
\* is not marked; and whether the status update succeeds or fails, the
\* promotion goes on as a success with the deal's id.
C33_ConvertedOnlyAfterDealCreated ==
    /\ [](\A p \in procs :
            /\ (frame[p].pc = "mark_converted" \/ Did(p, "crm.lead.update", "convertido")) =>
                  /\ frame[p].deal_id \in 1..Len(deals)
                  /\ Posicao(p, "crm.deal.add", "conversao") > 0
                  /\ "falha_criar_negocio" \notin frame[p].log
            /\ Did(p, "crm.lead.update", "convertido") =>
                  Posicao(p, "crm.deal.add", "conversao")
                     < Posicao(p, "crm.lead.update", "convertido")
            /\ "falha_criar_negocio" \in frame[p].log =>
                  /\ ~Did(p, "crm.lead.update", "convertido")
                  /\ frame[p].deal_id = 0)
    /\ [](leadFields["STATUS_ID"] = "CONVERTED" =>
            \E p \in procs : /\ Did(p, "crm.lead.update", "convertido")
                             /\ frame[p].deal_id \in 1..Len(deals))
    /\ [][\A p \in procs :
            (frame[p].pc = "mark_converted" /\ frame'[p] /= frame[p]) =>
               /\ frame'[p].deal_id = frame[p].deal_id
               /\ "falha_criar_negocio" \notin frame'[p].log
               /\ frame'[p].pc = IF IsGet(p) THEN "produto" ELSE "done"
               /\ Done(p)' => Succeeded(p)']_vars

\* The deal was created, the status update failed, the lead is not marked
\* converted, and the invocation went on to the line item and ended with
\* success.
C33_Witness ==
    \E p \in procs :
        /\ IsGet(p) /\ Succeeded(p)
        /\ frame[p].deal_id = 1 /\ Len(deals) = 1
        /\ "erro_marcar_lead_convertido" \in frame[p].log
        /\ Did(p, "crm.lead.update", "convertido")
        /\ leadFields["STATUS_ID"] /= "CONVERTED"
        /\ Did(p, "crm.deal.productrows.set", "produto")

\* The crm.deal.productrows.set calls invocation p has issued.
ChamadasProduto(p) ==
    {i \in DOMAIN frame[p].calls :
        frame[p].calls[i] = Call("crm.deal.productrows.set", "produto")}

\* C34: in processar_agendamento_get the line-item call is issued only after
\* the promotion reported success with a deal id, after crm.deal.add; it sets
\* the rows of exactly that deal and of no other; it is issued at most once
\* per invocation; and when the promotion failed no line-item call is made.
C34_LineItemOnlyOnPromotedDeal ==
    /\ [](\A p \in procs :
            /\ Cardinality(ChamadasProduto(p)) <= 1
            /\ (frame[p].pc = "produto" \/ ChamadasProduto(p) /= {}) =>
                  /\ frame[p].deal_id \in 1..Len(deals)
                  /\ "falha_criar_negocio" \notin frame[p].log
                  /\ Posicao(p, "crm.deal.add", "conversao") > 0
            /\ ChamadasProduto(p) /= {} =>
                  Posicao(p, "crm.deal.add", "conversao")
                     < Posicao(p, "crm.deal.productrows.set", "produto")
            /\ "falha_criar_negocio" \in frame[p].log => ChamadasProduto(p) = {})
    /\ [](\A i \in DOMAIN deals :
            deals[i].rows /= <<>> =>
               \E p \in procs : /\ frame[p].deal_id = i
                                /\ ChamadasProduto(p) /= {}
                                /\ deals[i].rows = <<NomeServico(event[p])>>)
    /\ [][\A p \in procs :
            (frame[p].pc = "produto" /\ frame'[p] /= frame[p]) =>
               /\ Len(deals') = Len(deals)
               /\ \A i \in DOMAIN deals : i /= frame[p].deal_id => deals'[i] = deals[i]
               /\ Done(p)' /\ Succeeded(p)']_vars

\* Two deals: invocation 1 created the second one and its line item is on
\* that deal, while the deal of invocation 2 has no line item.
C34_Witness ==
    /\ procs = PairProcs
    /\ Len(deals) = 2
    /\ frame[1].deal_id = 2 /\ frame[2].deal_id = 1
    /\ Succeeded(1)
    /\ Cardinality(ChamadasProduto(1)) = 1
    /\ deals[2].rows = <<NomeServico(event[1])>>
    /\ deals[1].rows = <<>>

\* C35: the two establishment tables are inverses of each other over
\* disjoint id spaces.  BELLE_TO_BITRIX_ESTABELECIMENTO is keyed by the text
\* of the canonical code and BITRIX_TO_BELLE_ESTABELECIMENTO by the number of
\* the internal element, so the composition goes through str(): for every
\* canonical code c of BELLE_CODES_VALIDOS the element id of str(c) maps
\* back to c; for every internal element id i the code of i maps back to i;
\* no internal element id is a canonical code; and
\* converter_estabelecimento_para_belle applied to an internal element id
\* returns the code whose element id is that id.
C35_EstablishmentTablesAreInverse ==
    /\ DOMAIN BELLE_TO_BITRIX_ESTABELECIMENTO = {ToString(c) : c \in BELLE_CODES_VALIDOS}
    /\ \A c \in BELLE_CODES_VALIDOS :
          \E i \in DOMAIN BITRIX_TO_BELLE_ESTABELECIMENTO :
             /\ ToString(i) = BELLE_TO_BITRIX_ESTABELECIMENTO[ToString(c)]
             /\ BITRIX_TO_BELLE_ESTABELECIMENTO[i] = c
    /\ \A i \in DOMAIN BITRIX_TO_BELLE_ESTABELECIMENTO :
          /\ BITRIX_TO_BELLE_ESTABELECIMENTO[i] \in BELLE_CODES_VALIDOS
          /\ BELLE_TO_BITRIX_ESTABELECIMENTO[ToString(BITRIX_TO_BELLE_ESTABELECIMENTO[i])]
               = ToString(i)
    /\ DOMAIN BITRIX_TO_BELLE_ESTABELECIMENTO \cap BELLE_CODES_VALIDOS = {}
    /\ \A p \in procs :
          (/\ Applied(p, "converter_estabelecimento_para_belle")
           /\ event[p].arg \in DOMAIN BITRIX_TO_BELLE_ESTABELECIMENTO) =>
              /\ frame[p].ret \in BELLE_CODES_VALIDOS
              /\ BELLE_TO_BITRIX_ESTABELECIMENTO[ToString(frame[p].ret)]
                   = ToString(event[p].arg)

\* converter_estabelecimento_para_belle applied to the internal element id
\* 242 returned the canonical code 5, whose element id is 242.
C35_Witness ==
    \E p \in procs :
        /\ Applied(p, "converter_estabelecimento_para_belle")
        /\ event[p].arg = 242
        /\ frame[p].ret = 5
        /\ BELLE_TO_BITRIX_ESTABELECIMENTO["5"] = "242"

RosterVazio(p) == "nenhum_usuario_encontrado_no_estabelecimento" \in frame[p].log

\* C36: when the roster query succeeds with an empty roster,
\* validar_profissional_no_estabelecimento reports the pairing as valid with
\* no professional name, and processar_agendamento_get goes on to the
\* customer stage and the booking: it never fails for an invalid pairing.
C36_EmptyRosterCountsAsValid ==
    /\ [](\A p \in procs :
            (IsGet(p) /\ RosterVazio(p)) =>
                /\ frame[p].prof_valido
                /\ frame[p].nome_prof_validado = None
                /\ frame[p].falha.tipo /= "profissional_invalido"
                /\ Done(p) => frame[p].result.erro_tipo = None)
    /\ [][\A p \in procs :
            (/\ IsGet(p)
             /\ frame[p].pc = "roster_resp"
             /\ ~frame[p].resp.raised
             /\ frame[p].resp.usuarios = <<>>
             /\ frame'[p] /= frame[p]) =>
                /\ frame'[p].pc = "lead_get"
                /\ frame'[p].falha = NoFalha
                /\ frame'[p].prof_valido
                /\ RosterVazio(p)']_vars

\* The roster came back empty and the invocation booked and ended with
\* success, the professional's name never confirmed.
C36_Witness ==
    \E p \in procs :
        /\ IsGet(p) /\ Succeeded(p)
        /\ RosterVazio(p)
        /\ "erro_validar_profissional_estabelecimento" \notin frame[p].log
        /\ frame[p].nome_prof_validado = None
        /\ Did(p, "usuario/buscar", "roster")
        /\ Did(p, "agenda/gravar", "agendamento")

====
